---- MODULE Spec2Model ----
(***************************************************************************)
(* Client-side scheduling logic of the admin dashboard:                    *)
(*   - StockSymbolsPage (src/app/dashboard/stock-symbols/page.tsx):        *)
(*     the real-time refresh loop, manual loads and the debounced search;  *)
(*   - TipFormDialog (src/unnamed/part_000): the debounced stock search,   *)
(*     the module-level stock detail cache, the form with its schema and  *)
(*     auto-calculated percentages, and the submission;                    *)
(*   - SubscriptionsPage (src/unnamed/part_000): loadData and the status   *)
(*     change of a subscription.                                           *)
(* React state is modelled by one variable per useState/useRef cell, a     *)
(* closure by the values it captured when it was created, a pending        *)
(* timer or an in-flight request by a record in a timer table / request    *)
(* list.  A state change made by a discrete UI event is one step together  *)
(* with the effects that React flushes for it.                             *)
(***************************************************************************)
EXTENDS Integers, Sequences, FiniteSets, TLC

\* ------------------------------------------------------------------ bounds
MaxTimers == 3      \* size of the runtime's interval-timer table
MaxClock == 3       \* ticks of the refresh timers that a run may contain
NumPages == 2       \* pages the backend reports
MaxTermLen == 2     \* longest text typed into a search box
MaxGen == 2         \* debounced functions useCallback creates per screen
MaxCalls == 2       \* searchStockSymbols calls a run may issue per screen
MaxTipCalls == 1    \* searchStockSymbols calls a run may issue in the dialog
MaxDetailCalls == 1 \* fetchStockSymbolById calls a run may issue
MaxSubmitCalls == 1 \* updateTip and onSubmit calls a run may issue
MaxLoadCalls == 2   \* loadData calls a run of the subscriptions page may start
MaxStatusCalls == 1 \* status operations a run may issue

\* --------------------------------------------------------------- constants
DefaultLimit == 50
NoTimer == 0
Never == 0
MinSearchLen == 2
DebounceWait == 300
TipMinSearchLen == 2
PercentScale == 100
FractionDigits == 2
Radix == 10
DefaultConfidence == 5
TipDebounceWait == 300
NoStockId == 0
NoSubscription == 0

REFRESH_INTERVALS ==
  [k \in {"5", "10", "30", "60", "300"} |->
     CASE k = "5" -> 5000
       [] k = "10" -> 10000
       [] k = "30" -> 30000
       [] k = "60" -> 60000
       [] k = "300" -> 300000]

\* The periods offered by the interval menu that a run selects from.
IntervalChoices == {"5", "30"}

VARIABLES
  \* ---- StockSymbolsPage: component life cycle and useState cells
  phase,               \* "init" (rendered, effects not run), "mounted", "unmounted"
  isUserAuthenticated,
  isLoading,
  error,
  stockSymbols,        \* the displayed rows: <<>> or <<[page, ver]>>
  pagination,
  isRealTimeEnabled,
  refreshInterval,
  lastUpdateTime,
  isConnected,
  updateCounter,
  \* ---- StockSymbolsPage: refs, timers, requests
  intervalRef,         \* intervalRef.current: a timer id or NoTimer
  intervalTimers,      \* the runtime's table of active setInterval timers
  inflight,            \* the fetchStockSymbols calls not yet settled
  clock,               \* wall clock read by new Date()
  lastToast,
  \* ---- StockSymbolsPage: search
  searchQuery,
  searchResults,
  isSearching,
  debounceGen,         \* the debounced function useCallback currently returns
  debounceTimers,      \* pending setTimeout timers of the debounced functions
  searchInflight,      \* searchStockSymbols calls not yet settled
  searchCalls,         \* number of searchStockSymbols calls issued so far
  burst,               \* terms of the calls issued since the current burst
                       \* of input changes began
  \* ---- TipFormDialog: props, useState cells, form values
  tipPhase,            \* "init" (rendered, effects not run) or "mounted"
  open,
  initialData,         \* NoTip or the tip being edited
  searchTerm,
  tipSearchResults,
  tipIsSearching,
  showResults,
  selectedStockDetails,
  formStockId,         \* the form's stockId value
  tipToast,
  \* ---- TipFormDialog: timers, requests, the module-level cache
  tipDebounceGen,
  tipDebounceTimers,
  tipSearchInflight,
  tipSearchCalls,
  stockDetailsCache,   \* Map: stock id -> stock record
  detailInflight,      \* fetchStockSymbolById calls not yet settled
  detailCalls,         \* number of fetchStockSymbolById calls issued so far
  \* ---- TipFormDialog: the form and the auto-calculation flags
  form,                \* the form's values other than stockId
  isAutoCalcTarget,
  isAutoCalcExit,
  formErrors,          \* formState.errors: the fields the resolver rejected
  \* ---- TipFormDialog: submissions
  submitInflight,      \* updateTip and onSubmit calls not yet settled
  submitCalls,         \* number of such calls issued so far
  \* ---- SubscriptionsPage: useState cells
  subPhase,            \* "init" (rendered, effects not run) or "mounted"
  subscriptions,
  paymentHistory,
  subIsLoading,        \* the page's isLoading
  usingMockData,
  statusDialogOpen,
  selectedSubscription, \* NoSubscription or a subscription id
  newStatus,
  subToast,
  \* ---- SubscriptionsPage: calls
  loadInflight,        \* loadData calls at one of their two awaits
  loadCalls,           \* number of loadData calls started so far
  statusInflight,      \* cancelSubscription / updateSubscriptionStatus
                       \* calls not yet settled
  statusCalls          \* number of such calls issued so far

refreshVars ==
  <<phase, isUserAuthenticated, isLoading, error, stockSymbols, pagination,
    isRealTimeEnabled, refreshInterval, lastUpdateTime, isConnected,
    updateCounter, intervalRef, intervalTimers, inflight, clock, lastToast>>

searchVars ==
  <<searchQuery, searchResults, isSearching, debounceGen, debounceTimers,
    searchInflight, searchCalls, burst>>

tipVars ==
  <<tipPhase, open, initialData, searchTerm, tipSearchResults, tipIsSearching,
    showResults, selectedStockDetails, formStockId, tipToast, tipDebounceGen,
    tipDebounceTimers, tipSearchInflight, tipSearchCalls,
    stockDetailsCache, detailInflight, detailCalls, form, isAutoCalcTarget,
    isAutoCalcExit, formErrors, submitInflight, submitCalls>>

\* The part of the dialog's state the form handlers write.
formVars == <<form, isAutoCalcTarget, isAutoCalcExit>>

\* The part the submit handler and its calls write.
submitVars == <<formErrors, submitInflight, submitCalls>>

pageVars == <<refreshVars, searchVars>>

subVars ==
  <<subPhase, subscriptions, paymentHistory, subIsLoading, usingMockData,
    statusDialogOpen, selectedSubscription, newStatus, subToast,
    loadInflight, loadCalls, statusInflight, statusCalls>>

vars == <<refreshVars, searchVars, tipVars, subVars>>

\* ---------------------------------------------------------------- helpers
TimerIds == 1..MaxTimers

Min(S) == CHOOSE x \in S : \A y \in S : x <= y

\* The texts a search box may hold: the prefixes of one word.
Terms == {[i \in 1..n |-> i] : n \in 0..MaxTermLen}

NoResults == [call |-> 0, items |-> <<>>]

\* The backend's answer to the search call c: no match or one match.
SearchResponses(c) ==
  {[call |-> c.call, items |-> <<>>], [call |-> c.call, items |-> <<c.term>>]}

\* The function debounce returns, instance gen, called with term:
\* clearTimeout(timeout); timeout = setTimeout(() => func(term), wait).
\* Each instance has its own timeout variable.
\* Mutant: only the empty term is short.
tooShortOnlyEmpty(term) == Len(term) < 1

\* The page's callback returns early on term.length < 2.
tooShort(term) == Len(term) < MinSearchLen

\* The dialog's callback returns early on term.length < 2.
tipTooShort(term) == Len(term) < TipMinSearchLen

debounce(timers, gen, term) ==
  {t \in timers : t.gen # gen}
    \cup {[gen |-> gen, term |-> term, wait |-> DebounceWait]}

\* The same function as defined in the dialog's file.
tipDebounce(timers, gen, term) ==
  {t \in timers : t.gen # gen}
    \cup {[gen |-> gen, term |-> term, wait |-> TipDebounceWait]}

\* ------------------------------------------------ texts and numbers
\* A text is a sequence of one-character strings; a number is a fraction
\* num/den with den a power of ten, or NaN.
DigitChars == <<"0", "1", "2", "3", "4", "5", "6", "7", "8", "9">>

IsDigit(ch) == \E d \in 1..Radix : DigitChars[d] = ch

DigitVal(ch) == (CHOOSE d \in 1..Radix : DigitChars[d] = ch) - 1

NaN == [nan |-> TRUE, num |-> 0, den |-> 1]

\* The digits at the head of str, up to the first other character
RECURSIVE DigitPrefix(_)
DigitPrefix(str) ==
  IF str # <<>> /\ IsDigit(Head(str))
    THEN <<Head(str)>> \o DigitPrefix(Tail(str))
    ELSE <<>>

RECURSIVE DigitsValue(_)
DigitsValue(ds) ==
  IF ds = <<>> THEN 0
  ELSE DigitsValue(SubSeq(ds, 1, Len(ds) - 1)) * Radix + DigitVal(ds[Len(ds)])

RECURSIVE PowerOfTen(_)
PowerOfTen(n) == IF n = 0 THEN 1 ELSE Radix * PowerOfTen(n - 1)

\* parseFloat of an unsigned decimal literal: digits, then optionally a
\* point and digits; the rest of the text is ignored; NaN without a digit.
parseUnsigned(str) ==
  LET ip == DigitPrefix(str)
      rest == SubSeq(str, Len(ip) + 1, Len(str))
      fp == IF rest # <<>> /\ Head(rest) = "."
              THEN DigitPrefix(Tail(rest)) ELSE <<>>
  IN IF ip = <<>> /\ fp = <<>>
       THEN NaN
       ELSE [nan |-> FALSE,
             num |-> DigitsValue(ip) * PowerOfTen(Len(fp)) + DigitsValue(fp),
             den |-> PowerOfTen(Len(fp))]

\* parseFloat(str), for texts without an exponent part
parseFloat(str) ==
  IF str # <<>> /\ Head(str) = "-"
    THEN LET v == parseUnsigned(Tail(str))
         IN IF v.nan THEN NaN ELSE [v EXCEPT !.num = 0 - v.num]
  ELSE IF str # <<>> /\ Head(str) = "+" THEN parseUnsigned(Tail(str))
  ELSE parseUnsigned(str)

\* x > 0, false for NaN
IsPositive(x) == ~x.nan /\ x.num > 0

\* The decimal digits of a natural number
RECURSIVE NatText(_)
NatText(n) ==
  IF n < Radix THEN <<DigitChars[n + 1]>>
  ELSE NatText(n \div Radix) \o <<DigitChars[(n % Radix) + 1]>>

\* (num/den).toFixed(2) for den > 0: the sign, then the magnitude rounded
\* to the nearest hundredth, the larger one on a tie.
toFixed(num, den) ==
  LET a == IF num < 0 THEN 0 - num ELSE num
      unit == PowerOfTen(FractionDigits)
      n == (2 * a * unit + den) \div (2 * den)
      frac == NatText(unit + (n % unit))
  IN (IF num < 0 THEN <<"-">> ELSE <<>>)
       \o NatText(n \div unit) \o <<".">> \o Tail(frac)

\* `${((price - reference) / reference * 100).toFixed(2)}%`, computed
\* exactly, for reference > 0
percentageText(price, reference) ==
  toFixed((price.num * reference.den - reference.num * price.den)
            * PercentScale,
          reference.num * price.den) \o <<"%">>

\* Mutant: the effect does not look at its flag.
autoCalcIgnoresFlag(isAutoCalc, stock, priceText, percentage) ==
  IF stock._id # NoStockId /\ priceText # <<>>
    THEN LET currentPrice == parseFloat(stock.currentPrice)
             price == parseFloat(priceText)
         IN IF IsPositive(currentPrice) /\ IsPositive(price)
              THEN percentageText(price, currentPrice)
              ELSE percentage
    ELSE percentage

\* The body of an auto-calculate effect: the text the percentage field
\* holds afterwards, given the one it held.
autoCalc(isAutoCalc, stock, priceText, percentage) ==
  IF isAutoCalc /\ stock._id # NoStockId /\ priceText # <<>>
    THEN LET currentPrice == parseFloat(stock.currentPrice)
             price == parseFloat(priceText)
         IN IF IsPositive(currentPrice) /\ IsPositive(price)
              THEN percentageText(price, currentPrice)
              ELSE percentage
    ELSE percentage

\* ------------------------------------------------------------- tipSchema
\* The rest of str after a match of \d+(\.\d+)? at its head, or Fail
NoMatch == <<"no match">>

afterNumber(str) ==
  LET ip == DigitPrefix(str)
      rest == SubSeq(str, Len(ip) + 1, Len(str))
      fp == IF rest # <<>> /\ Head(rest) = "."
              THEN DigitPrefix(Tail(rest)) ELSE <<>>
  IN IF ip = <<>> THEN NoMatch
     ELSE IF fp = <<>> THEN rest
     ELSE SubSeq(rest, Len(fp) + 2, Len(rest))

\* The rest of str after a match of \s*
RECURSIVE afterSpaces(_)
afterSpaces(str) ==
  IF str # <<>> /\ Head(str) = " " THEN afterSpaces(Tail(str)) ELSE str

\* Mutant: the pattern without its closing anchor.
rangePatternUnanchored(str) ==
  LET r1 == afterNumber(str)
      r2 == afterSpaces(r1)
  IN /\ r1 # NoMatch
     /\ r2 # <<>>
     /\ Head(r2) = "-"
     /\ afterNumber(afterSpaces(Tail(r2))) # NoMatch

\* /^\d+(\.\d+)?\s*-\s*\d+(\.\d+)?$/.test(str)
rangePattern(str) ==
  LET r1 == afterNumber(str)
      r2 == afterSpaces(r1)
  IN /\ r1 # NoMatch
     /\ r2 # <<>>
     /\ Head(r2) = "-"
     /\ afterNumber(afterSpaces(Tail(r2))) = <<>>

\* A character a URL scheme may start with
IsLetter(ch) == ~IsDigit(ch) /\ ch \notin {":", "/", ".", "-", " ", "%"}

\* new URL(str) does not throw: str starts with a scheme of letters and a
\* colon (the sample texts use no scheme that requires a host).
isUrl(str) ==
  \E i \in 2..Len(str) :
    /\ str[i] = ":"
    /\ \A j \in 1..(i - 1) : IsLetter(str[j])

\* The fields of tipSchema
FormFieldsAndStockId ==
  {"stockId", "title", "stockSymbol", "category", "content", "description",
   "status", "action", "buyRange", "targetPrice", "targetPercentage",
   "exitPrice", "exitStatusPercentage", "horizon", "tipUrl",
   "analysistConfidence"}

\* The fields tipSchema rejects, for the form values f with the given
\* stockId
tipSchema(stockId, f) ==
  {fld \in FormFieldsAndStockId :
     CASE fld = "title" -> f.title < 5 \/ f.title > 200
       [] fld = "stockId" -> stockId = NoStockId
       [] fld = "stockSymbol" -> Len(f.stockSymbol) < 1
       [] fld = "category" ->
            f.category \notin {"basic", "premium", "social_media"}
       [] fld = "content" -> f.content < 20 \/ f.content > 5000
       [] fld = "description" ->
            f.description < 10 \/ f.description > 1000
       [] fld = "status" -> f.status \notin {"Active", "Closed"}
       [] fld = "action" ->
            f.action \notin {"buy", "sell", "hold", "partial sell",
                             "partial profit", "add more"}
       [] fld = "buyRange" ->
            Len(f.buyRange) < 1 \/ ~rangePattern(f.buyRange)
       [] fld = "horizon" ->
            f.horizon \notin {"Short Term", "Medium Term", "Long Term"}
       [] fld = "tipUrl" -> Len(f.tipUrl) < 1 \/ ~isUrl(f.tipUrl)
       [] fld = "analysistConfidence" ->
            f.analysistConfidence < 1 \/ f.analysistConfidence > 10
       [] OTHER -> FALSE}

\* Ids of the stocks the backend knows.
StockIds == {1, 2}

\* Sample current prices of a stock record.
Prices == {<<"1", "5", "0", ".", "0", "0">>, <<"1", "0", "0">>}

Stocks == [_id : StockIds, currentPrice : Prices]

NoStock == [_id |-> NoStockId, currentPrice |-> <<>>]

\* The symbol of the stock with the given id
SymbolOf(id) == <<"S", DigitChars[id + 1]>>

\* The free texts (title, content, description) are kept as their lengths:
\* the code only measures them and passes them on.
AutoTitleSuffixLen == 15

FormFields ==
  {"title", "stockSymbol", "category", "content", "description", "status",
   "action", "buyRange", "targetPrice", "targetPercentage", "exitPrice",
   "exitStatusPercentage", "horizon", "tipUrl", "analysistConfidence"}

\* defaultValues of useForm, and the values of reset() for a new tip
DefaultValues ==
  [title |-> 0, stockSymbol |-> <<>>, category |-> "basic",
   content |-> 0, description |-> 0, status |-> "Active",
   action |-> "", buyRange |-> <<>>, targetPrice |-> <<>>,
   targetPercentage |-> <<>>, exitPrice |-> <<>>,
   exitStatusPercentage |-> <<>>, horizon |-> "Long Term",
   tipUrl |-> <<>>, analysistConfidence |-> DefaultConfidence]

\* A stored tip on stock 1: buy, with a target price and a percentage that
\* was entered by hand.
TipBuy ==
  [_id |-> 1, stockId |-> 1, title |-> 5, stockSymbol |-> SymbolOf(1),
   category |-> "premium", content |-> 20, description |-> 10,
   status |-> "Active", action |-> "buy",
   buyRange |-> <<"1", "-", "2">>,
   targetPrice |-> <<"1", "8", "0">>,
   targetPercentage |-> <<"2", "5", "%">>, exitPrice |-> <<>>,
   exitStatusPercentage |-> <<>>, horizon |-> "Short Term",
   tipUrl |-> <<"a", ":", "b">>,
   analysistConfidence |-> 7]

\* A stored tip on stock 2: partial sell with an exit price.
TipExit ==
  [TipBuy EXCEPT !._id = 2, !.stockId = 2, !.stockSymbol = SymbolOf(2),
                 !.action = "partial sell", !.targetPrice = <<>>,
                 !.targetPercentage = <<>>,
                 !.exitPrice = <<"1", "2", "0">>]

\* A stored tip without a stock reference.
TipNoStock ==
  [TipBuy EXCEPT !._id = 3, !.stockId = NoStockId, !.stockSymbol = <<>>,
                 !.action = "hold", !.targetPrice = <<>>,
                 !.targetPercentage = <<>>]

\* A tip that was not stored yet (no _id): buy without a target price.
TipDraft ==
  [TipBuy EXCEPT !._id = 0, !.targetPrice = <<>>, !.targetPercentage = <<>>]

\* The tips the parent may pass as initialData.
Tips == {TipBuy, TipExit, TipNoStock, TipDraft}

\* The tips that were stored, with or without a stock reference
StoredTips == {TipBuy, TipExit, TipNoStock}

\* The tips with a stock and a price
PricedTips == {TipBuy, TipExit}

\* initialData undefined
NoTip == [f \in FormFields \cup {"_id", "stockId"} |->
            IF f \in {"_id", "stockId"} THEN 0 ELSE DefaultValues[f]]

\* The values reset() receives when the dialog opens with data
resetValues(data) ==
  IF data = NoTip THEN DefaultValues
  ELSE [f \in FormFields |->
          CASE f = "category" /\ data[f] = "" -> "basic"
            [] f = "status" /\ data[f] = "" -> "Active"
            [] f = "horizon" /\ data[f] = "" -> "Long Term"
            [] f = "analysistConfidence" /\ data[f] = 0 -> DefaultConfidence
            [] OTHER -> data[f]]

\* The backend's answer to the dialog's search call c: no match or one stock.
TipSearchResponses(c) == {<<>>} \cup {<<st>> : st \in Stocks}

\* The backend's answer to fetchStockSymbolById(id)
DetailResponses(id) == {st \in Stocks : st._id = id}

FreeTimerIds(tms) == {i \in TimerIds : \A t \in tms : t.id # i}

\* The backend's answer to the request req = fetchStockSymbols(page, limit):
\* the rows of that page as of the request, with or without a pagination
\* block.
Responses(req) ==
  {[data |-> <<[page |-> req.page, asOf |-> req.now]>>, pagination |-> p] :
     p \in {<<>>,
            <<[page |-> req.page, limit |-> req.limit,
               total |-> NumPages * req.limit, pages |-> NumPages]>>}}

\* Mutant: the ref is reset but clearInterval is not called.
stopWithoutClearInterval(ref, tms) == [ref |-> NoTimer, timers |-> tms]

\* clearInterval + intervalRef.current = null, when a timer is registered
stopRealTimeUpdates(ref, tms) ==
  IF ref # NoTimer
    THEN [ref |-> NoTimer, timers |-> {t \in tms : t.id # ref}]
    ELSE [ref |-> ref, timers |-> tms]

\* stop, then setInterval with a callback that closes over the render's
\* refreshStockData, i.e. over that render's pagination and updateCounter
startRealTimeUpdates(ref, tms, key, pg, counter) ==
  LET s == stopRealTimeUpdates(ref, tms)
      id == Min(FreeTimerIds(s.timers))
  IN [ref |-> id,
      timers |-> s.timers \cup
        {[id |-> id, period |-> REFRESH_INTERVALS[key],
          page |-> pg.page, limit |-> pg.limit, counter |-> counter]}]

\* Mutant: the effect only ever starts the loop; it has no cleanup and no
\* else branch.
RealTimeEffectNeverStops(enabled, key, auth) ==
  IF enabled /\ auth
    THEN startRealTimeUpdates(intervalRef, intervalTimers, key, pagination,
                              updateCounter)
    ELSE [ref |-> intervalRef, timers |-> intervalTimers]

\* The real-time effect for a render with the given dependency values:
\* the previous run's cleanup, then the effect body.
RealTimeEffect(enabled, key, auth) ==
  LET c == stopRealTimeUpdates(intervalRef, intervalTimers)
  IN IF enabled /\ auth
       THEN startRealTimeUpdates(c.ref, c.timers, key, pagination, updateCounter)
       ELSE stopRealTimeUpdates(c.ref, c.timers)

RunRealTimeEffect(enabled, key, auth) ==
  /\ FreeTimerIds(intervalTimers) # {}
  /\ LET e == RealTimeEffect(enabled, key, auth)
     IN /\ intervalRef' = e.ref
        /\ intervalTimers' = e.timers

\* ------------------------------------------------------------------- Init
Init ==
  /\ phase = "init"
  /\ isUserAuthenticated = TRUE
  /\ isLoading = TRUE
  /\ error = "null"
  /\ stockSymbols = <<>>
  /\ pagination = [page |-> 1, limit |-> DefaultLimit, total |-> 0, pages |-> 0]
  /\ isRealTimeEnabled = FALSE
  /\ refreshInterval = "30"
  /\ lastUpdateTime = Never
  /\ isConnected = TRUE
  /\ updateCounter = 0
  /\ intervalRef = NoTimer
  /\ intervalTimers = {}
  /\ inflight = {}
  /\ clock = 1
  /\ lastToast = "none"
  /\ searchQuery = <<>>
  /\ searchResults = NoResults
  /\ isSearching = FALSE
  /\ debounceGen = 1
  /\ debounceTimers = {}
  /\ searchInflight = {}
  /\ searchCalls = 0
  /\ burst = <<>>
  /\ tipPhase = "init"
  /\ open = FALSE
  /\ initialData = NoTip
  /\ searchTerm = <<>>
  /\ tipSearchResults = <<>>
  /\ tipIsSearching = FALSE
  /\ showResults = FALSE
  /\ selectedStockDetails = NoStock
  /\ formStockId = NoStockId
  /\ tipToast = "none"
  /\ tipDebounceGen = 1
  /\ tipDebounceTimers = {}
  /\ tipSearchInflight = {}
  /\ tipSearchCalls = 0
  /\ stockDetailsCache = <<>>
  /\ detailInflight = {}
  /\ detailCalls = 0
  /\ form = DefaultValues
  /\ isAutoCalcTarget = TRUE
  /\ isAutoCalcExit = TRUE
  /\ formErrors = {}
  /\ submitInflight = {}
  /\ submitCalls = 0
  /\ subPhase = "init"
  /\ subscriptions = <<>>
  /\ paymentHistory = <<>>
  /\ subIsLoading = TRUE
  /\ usingMockData = [subscriptions |-> FALSE, payments |-> FALSE]
  /\ statusDialogOpen = FALSE
  /\ selectedSubscription = NoSubscription
  /\ newStatus = ""
  /\ subToast = "none"
  /\ loadInflight = {}
  /\ loadCalls = 0
  /\ statusInflight = {}
  /\ statusCalls = 0

\* ------------------------------------------------- StockSymbolsPage: mount
\* The mount effects: the authentication check (which starts the first
\* load) and the first run of the real-time effect.
Mount(authStatus) ==
  /\ phase = "init"
  /\ tipPhase = "init"
  /\ subPhase = "init"
  /\ phase' = "mounted"
  /\ IF authStatus = "true"
       THEN /\ isUserAuthenticated' = TRUE
            /\ isLoading' = TRUE
            /\ error' = "null"
            /\ inflight' = inflight \cup
                 {[kind |-> "load", page |-> 1, limit |-> DefaultLimit,
                   now |-> clock, counter |-> 0]}
       ELSE /\ isUserAuthenticated' = FALSE
            /\ isLoading' = FALSE
            /\ error' = IF authStatus = "false" THEN "login" ELSE "authError"
            /\ UNCHANGED inflight
  /\ RunRealTimeEffect(isRealTimeEnabled, refreshInterval, isUserAuthenticated')
  /\ UNCHANGED <<stockSymbols, pagination, isRealTimeEnabled, refreshInterval,
                 lastUpdateTime, isConnected, updateCounter, clock, lastToast>>
  /\ UNCHANGED searchVars
  /\ UNCHANGED <<tipVars, subVars>>

\* Mutant: the real-time effect has no cleanup when the page unmounts.
UnmountKeepsTimer ==
  /\ phase = "mounted"
  /\ phase' = "unmounted"
  /\ UNCHANGED <<isUserAuthenticated, isLoading, error, stockSymbols,
                 pagination, isRealTimeEnabled, refreshInterval,
                 lastUpdateTime, isConnected, updateCounter, intervalRef,
                 intervalTimers, inflight, clock, lastToast>>
  /\ UNCHANGED searchVars
  /\ UNCHANGED <<tipVars, subVars>>

\* The page unmounts: the cleanup of the real-time effect stops the loop.
Unmount ==
  /\ phase = "mounted"
  /\ phase' = "unmounted"
  /\ LET s == stopRealTimeUpdates(intervalRef, intervalTimers)
     IN /\ intervalRef' = s.ref
        /\ intervalTimers' = s.timers
  /\ UNCHANGED <<isUserAuthenticated, isLoading, error, stockSymbols,
                 pagination, isRealTimeEnabled, refreshInterval,
                 lastUpdateTime, isConnected, updateCounter, inflight, clock,
                 lastToast>>
  /\ UNCHANGED searchVars
  /\ UNCHANGED <<tipVars, subVars>>

\* The controls are rendered only for a mounted, authenticated page.
Interactive == phase = "mounted" /\ isUserAuthenticated

\* ------------------------------------------ real-time toggle and interval
\* Mutant: switching the loop on or off starts the counter afresh.
ToggleRealTimeResetsCounter ==
  /\ Interactive
  /\ isRealTimeEnabled' = ~isRealTimeEnabled
  /\ updateCounter' = 0
  /\ RunRealTimeEffect(isRealTimeEnabled', refreshInterval, isUserAuthenticated)
  /\ UNCHANGED <<phase, isUserAuthenticated, isLoading, error, stockSymbols,
                 pagination, refreshInterval, lastUpdateTime, isConnected,
                 inflight, clock, lastToast>>
  /\ UNCHANGED searchVars
  /\ UNCHANGED <<tipVars, subVars>>

ToggleRealTime ==
  /\ Interactive
  /\ isRealTimeEnabled' = ~isRealTimeEnabled
  /\ RunRealTimeEffect(isRealTimeEnabled', refreshInterval, isUserAuthenticated)
  /\ UNCHANGED <<phase, isUserAuthenticated, isLoading, error, stockSymbols,
                 pagination, refreshInterval, lastUpdateTime, isConnected,
                 updateCounter, inflight, clock, lastToast>>
  /\ UNCHANGED searchVars
  /\ UNCHANGED <<tipVars, subVars>>

SetRefreshInterval(key) ==
  /\ Interactive
  /\ key # refreshInterval
  /\ refreshInterval' = key
  /\ RunRealTimeEffect(isRealTimeEnabled, key, isUserAuthenticated)
  /\ UNCHANGED <<phase, isUserAuthenticated, isLoading, error, stockSymbols,
                 pagination, isRealTimeEnabled, lastUpdateTime, isConnected,
                 updateCounter, inflight, clock, lastToast>>
  /\ UNCHANGED searchVars
  /\ UNCHANGED <<tipVars, subVars>>

\* ------------------------------------------------------ the refresh tick
\* Mutant: setUpdateCounter(updateCounter + 1) with the closure's counter.
StaleUpdateCounter(prev, captured) == captured + 1

\* setUpdateCounter(prev => prev + 1): the functional update reads the
\* current counter, not the one the timer's closure captured.
NextUpdateCounter(prev, captured) == prev + 1

\* The interval callback of timer t starts: refreshStockData reads the
\* clock and calls fetchStockSymbols with the page and limit of the render
\* that started the timer.
TickFire(t) ==
  /\ t \in intervalTimers
  /\ clock < MaxClock
  /\ clock' = clock + 1
  /\ LET req == [kind |-> "tick", page |-> t.page, limit |-> t.limit,
                 now |-> clock', counter |-> t.counter]
     IN /\ inflight' = inflight \cup {req}
  /\ UNCHANGED <<phase, isUserAuthenticated, isLoading, error, stockSymbols,
                 pagination, isRealTimeEnabled, refreshInterval,
                 lastUpdateTime, isConnected, updateCounter, intervalRef,
                 intervalTimers, lastToast>>
  /\ UNCHANGED searchVars
  /\ UNCHANGED <<tipVars, subVars>>

\* The fetch of a tick resolves: the rest of refreshStockData, then the
\* callback's setIsConnected(true).  State setters of a component that is
\* no longer mounted have no effect.
TickOk(req, resp) ==
  /\ req \in inflight
  /\ req.kind = "tick"
  /\ resp \in Responses(req)
  /\ inflight' = inflight \ {req}
  /\ IF phase = "mounted"
       THEN /\ stockSymbols' = resp.data
            /\ pagination' = IF resp.pagination # <<>>
                                THEN resp.pagination[1] ELSE pagination
            /\ lastUpdateTime' = req.now
            /\ updateCounter' = NextUpdateCounter(updateCounter, req.counter)
            /\ lastToast' = IF req.counter > 0
                               THEN "Data Updated" ELSE lastToast
            /\ isConnected' = TRUE
       ELSE UNCHANGED <<stockSymbols, pagination, lastUpdateTime,
                        updateCounter, lastToast, isConnected>>
  /\ UNCHANGED <<phase, isUserAuthenticated, isLoading, error,
                 isRealTimeEnabled, refreshInterval, intervalRef,
                 intervalTimers, clock>>
  /\ UNCHANGED searchVars
  /\ UNCHANGED <<tipVars, subVars>>

\* Mutant: a failed tick also gives up the loop.
TickFailStopsLoop(req) ==
  /\ req \in inflight
  /\ req.kind = "tick"
  /\ inflight' = inflight \ {req}
  /\ isConnected' = IF phase = "mounted" THEN FALSE ELSE isConnected
  /\ intervalRef' = NoTimer
  /\ intervalTimers' = {}
  /\ UNCHANGED <<phase, isUserAuthenticated, isLoading, error, stockSymbols,
                 pagination, isRealTimeEnabled, refreshInterval,
                 lastUpdateTime, updateCounter, clock, lastToast>>
  /\ UNCHANGED searchVars
  /\ UNCHANGED <<tipVars, subVars>>

\* The fetch of a tick rejects: refreshStockData rethrows and the callback
\* sets isConnected to false; the timer is left alone.
TickFail(req) ==
  /\ req \in inflight
  /\ req.kind = "tick"
  /\ inflight' = inflight \ {req}
  /\ isConnected' = IF phase = "mounted" THEN FALSE ELSE isConnected
  /\ UNCHANGED <<phase, isUserAuthenticated, isLoading, error, stockSymbols,
                 pagination, isRealTimeEnabled, refreshInterval,
                 lastUpdateTime, updateCounter, intervalRef, intervalTimers,
                 clock, lastToast>>
  /\ UNCHANGED searchVars
  /\ UNCHANGED <<tipVars, subVars>>

\* ------------------------------------------------------- loadStockSymbols
\* The pages the Refresh, First, Previous, Next and Last buttons ask for;
\* the pagination controls are rendered while the search box is empty.
LoadTargets ==
  {pagination.page}
  \cup (IF searchQuery = <<>> /\ pagination.pages > 1 /\ pagination.page # 1
          THEN {1, pagination.page - 1} ELSE {})
  \cup (IF searchQuery = <<>> /\ pagination.pages > 1
             /\ pagination.page # pagination.pages
          THEN {pagination.page + 1, pagination.pages} ELSE {})

LoadStart(page) ==
  /\ Interactive
  /\ ~isLoading
  /\ page \in LoadTargets
  /\ isLoading' = TRUE
  /\ error' = "null"
  /\ LET req == [kind |-> "load", page |-> page, limit |-> pagination.limit,
                 now |-> clock, counter |-> 0]
     IN /\ inflight' = inflight \cup {req}
  /\ UNCHANGED <<phase, isUserAuthenticated, stockSymbols, pagination,
                 isRealTimeEnabled, refreshInterval, lastUpdateTime,
                 isConnected, updateCounter, intervalRef, intervalTimers,
                 clock, lastToast>>
  /\ UNCHANGED searchVars
  /\ UNCHANGED <<tipVars, subVars>>

LoadOk(req, resp) ==
  /\ req \in inflight
  /\ req.kind = "load"
  /\ resp \in Responses(req)
  /\ inflight' = inflight \ {req}
  /\ IF phase = "mounted"
       THEN /\ stockSymbols' = resp.data
            /\ pagination' = IF resp.pagination # <<>>
                                THEN resp.pagination[1] ELSE pagination
            /\ lastUpdateTime' = clock
            /\ isConnected' = TRUE
            /\ isLoading' = FALSE
       ELSE UNCHANGED <<stockSymbols, pagination, lastUpdateTime,
                        isConnected, isLoading>>
  /\ UNCHANGED <<phase, isUserAuthenticated, error, isRealTimeEnabled,
                 refreshInterval, updateCounter, intervalRef, intervalTimers,
                 clock, lastToast>>
  /\ UNCHANGED searchVars
  /\ UNCHANGED <<tipVars, subVars>>

\* Mutant: a failed load also clears the displayed rows.
LoadFailClearsRows(req) ==
  /\ req \in inflight
  /\ req.kind = "load"
  /\ inflight' = inflight \ {req}
  /\ IF phase = "mounted"
       THEN /\ error' = "loadError"
            /\ isConnected' = FALSE
            /\ lastToast' = "Error loading stock symbols"
            /\ isLoading' = FALSE
            /\ stockSymbols' = <<>>
       ELSE UNCHANGED <<error, isConnected, lastToast, isLoading,
                        stockSymbols>>
  /\ UNCHANGED <<phase, isUserAuthenticated, pagination,
                 isRealTimeEnabled, refreshInterval, lastUpdateTime,
                 updateCounter, intervalRef, intervalTimers, clock>>
  /\ UNCHANGED searchVars
  /\ UNCHANGED <<tipVars, subVars>>

\* fetchStockSymbols rejects: the catch and finally blocks of
\* loadStockSymbols.
LoadFail(req) ==
  /\ req \in inflight
  /\ req.kind = "load"
  /\ inflight' = inflight \ {req}
  /\ IF phase = "mounted"
       THEN /\ error' = "loadError"
            /\ isConnected' = FALSE
            /\ lastToast' = "Error loading stock symbols"
            /\ isLoading' = FALSE
       ELSE UNCHANGED <<error, isConnected, lastToast, isLoading>>
  /\ UNCHANGED <<phase, isUserAuthenticated, stockSymbols, pagination,
                 isRealTimeEnabled, refreshInterval, lastUpdateTime,
                 updateCounter, intervalRef, intervalTimers, clock>>
  /\ UNCHANGED searchVars
  /\ UNCHANGED <<tipVars, subVars>>

\* ------------------------------------------- StockSymbolsPage: the search
\* The effect on [searchQuery, debouncedSearch], for a render with the
\* given query and debounced function.
SearchEffect(query, gen) ==
  IF query # <<>>
    THEN /\ debounceTimers' = debounce(debounceTimers, gen, query)
         /\ UNCHANGED searchResults
    ELSE /\ searchResults' = NoResults
         /\ UNCHANGED debounceTimers

\* onChange of the search box
SetSearchQuery(term) ==
  /\ Interactive
  /\ term # searchQuery
  /\ searchQuery' = term
  /\ SearchEffect(term, debounceGen)
  /\ burst' = IF debounceTimers = {} THEN <<>> ELSE burst
  /\ UNCHANGED <<isSearching, debounceGen, searchInflight, searchCalls,
                 lastToast>>
  /\ UNCHANGED <<phase, isUserAuthenticated, isLoading, error, stockSymbols,
                 pagination, isRealTimeEnabled, refreshInterval,
                 lastUpdateTime, isConnected, updateCounter, intervalRef,
                 intervalTimers, inflight, clock>>
  /\ UNCHANGED <<tipVars, subVars>>

\* useToast returns another toast function: useCallback([toast]) keeps the
\* debounced function created by this render, and the effect runs again.
ToastChange ==
  /\ Interactive
  /\ debounceGen < MaxGen
  /\ debounceGen' = debounceGen + 1
  /\ SearchEffect(searchQuery, debounceGen')
  /\ UNCHANGED <<searchQuery, isSearching, searchInflight, searchCalls,
                 burst, lastToast>>
  /\ UNCHANGED <<phase, isUserAuthenticated, isLoading, error, stockSymbols,
                 pagination, isRealTimeEnabled, refreshInterval,
                 lastUpdateTime, isConnected, updateCounter, intervalRef,
                 intervalTimers, inflight, clock>>
  /\ UNCHANGED <<tipVars, subVars>>

\* A pending timer's wait has elapsed: the debounced callback runs up to
\* its await.
DebounceFire(t) ==
  /\ t \in debounceTimers
  /\ debounceTimers' = debounceTimers \ {t}
  /\ IF tooShort(t.term)
       THEN /\ searchResults' = IF phase = "mounted" THEN NoResults
                                                     ELSE searchResults
            /\ UNCHANGED <<isSearching, searchInflight, searchCalls, burst>>
       ELSE /\ searchCalls < MaxCalls
            /\ searchCalls' = searchCalls + 1
            /\ isSearching' = IF phase = "mounted" THEN TRUE ELSE isSearching
            /\ searchInflight' = searchInflight
                 \cup {[term |-> t.term, call |-> searchCalls']}
            /\ burst' = Append(burst, t.term)
            /\ UNCHANGED searchResults
  /\ UNCHANGED <<searchQuery, debounceGen, lastToast>>
  /\ UNCHANGED <<phase, isUserAuthenticated, isLoading, error, stockSymbols,
                 pagination, isRealTimeEnabled, refreshInterval,
                 lastUpdateTime, isConnected, updateCounter, intervalRef,
                 intervalTimers, inflight, clock>>
  /\ UNCHANGED <<tipVars, subVars>>

SearchOk(c, resp) ==
  /\ c \in searchInflight
  /\ resp \in SearchResponses(c)
  /\ searchInflight' = searchInflight \ {c}
  /\ IF phase = "mounted"
       THEN /\ searchResults' = resp
            /\ isSearching' = FALSE
       ELSE UNCHANGED <<searchResults, isSearching>>
  /\ UNCHANGED <<searchQuery, debounceGen, debounceTimers, searchCalls,
                 burst, lastToast>>
  /\ UNCHANGED <<phase, isUserAuthenticated, isLoading, error, stockSymbols,
                 pagination, isRealTimeEnabled, refreshInterval,
                 lastUpdateTime, isConnected, updateCounter, intervalRef,
                 intervalTimers, inflight, clock>>
  /\ UNCHANGED <<tipVars, subVars>>

\* Mutant: no finally block, the searching flag stays set.
SearchFailKeepsSearching(c) ==
  /\ c \in searchInflight
  /\ searchInflight' = searchInflight \ {c}
  /\ IF phase = "mounted"
       THEN /\ lastToast' = "Search Error"
            /\ searchResults' = NoResults
       ELSE UNCHANGED <<lastToast, searchResults>>
  /\ UNCHANGED <<searchQuery, isSearching, debounceGen, debounceTimers,
                 searchCalls, burst>>
  /\ UNCHANGED <<phase, isUserAuthenticated, isLoading, error, stockSymbols,
                 pagination, isRealTimeEnabled, refreshInterval,
                 lastUpdateTime, isConnected, updateCounter, intervalRef,
                 intervalTimers, inflight, clock>>
  /\ UNCHANGED <<tipVars, subVars>>

\* searchStockSymbols rejects: the catch and finally blocks of the
\* debounced callback.
SearchFail(c) ==
  /\ c \in searchInflight
  /\ searchInflight' = searchInflight \ {c}
  /\ IF phase = "mounted"
       THEN /\ lastToast' = "Search Error"
            /\ searchResults' = NoResults
            /\ isSearching' = FALSE
       ELSE UNCHANGED <<lastToast, searchResults, isSearching>>
  /\ UNCHANGED <<searchQuery, debounceGen, debounceTimers, searchCalls,
                 burst>>
  /\ UNCHANGED <<phase, isUserAuthenticated, isLoading, error, stockSymbols,
                 pagination, isRealTimeEnabled, refreshInterval,
                 lastUpdateTime, isConnected, updateCounter, intervalRef,
                 intervalTimers, inflight, clock>>
  /\ UNCHANGED <<tipVars, subVars>>

\* ------------------------------------------------------------ TipFormDialog
\* The dialog lives on another screen than StockSymbolsPage: a run follows
\* one of the two.
\* The effect on [searchTerm, debouncedSearch]: always a debounced call.
TipSearchEffect(term, gen) ==
  tipDebounceTimers' = tipDebounce(tipDebounceTimers, gen, term)

\* setSearchTerm(term) with the effect it triggers when the value changes
TipSetTerm(term) ==
  /\ searchTerm' = term
  /\ IF term # searchTerm
       THEN TipSearchEffect(term, tipDebounceGen)
       ELSE UNCHANGED tipDebounceTimers

\* The mount effects of the dialog, rendered closed: the search effect
\* runs with the empty term.
TipMount ==
  /\ tipPhase = "init"
  /\ phase = "init"
  /\ subPhase = "init"
  /\ tipPhase' = "mounted"
  /\ TipSearchEffect(searchTerm, tipDebounceGen)
  /\ UNCHANGED <<open, initialData, searchTerm, tipSearchResults,
                 tipIsSearching, showResults, selectedStockDetails,
                 formStockId, tipToast, tipDebounceGen, tipSearchInflight,
                 tipSearchCalls, stockDetailsCache, detailInflight,
                 detailCalls>>
  /\ UNCHANGED formVars
  /\ UNCHANGED submitVars
  /\ UNCHANGED <<pageVars, subVars>>

\* Mutant: the cache is never consulted.
cacheNeverHas(cache, id) == FALSE

\* stockDetailsCache.has(id)
cacheHas(cache, id) == id \in DOMAIN cache

\* Mutant: writing an entry drops the other entries.
cacheSetOnly(cache, id, stock) == [k \in {id} |-> stock]

\* stockDetailsCache.set(id, stock)
cacheSet(cache, id, stock) ==
  [k \in DOMAIN cache \cup {id} |-> IF k = id THEN stock ELSE cache[k]]

\* The auto-calculate effects after selectedStockDetails became stock, on
\* the form values f
afterStockChange(f, stock) ==
  [f EXCEPT
     !.targetPercentage = autoCalc(isAutoCalcTarget, stock, f.targetPrice, @),
     !.exitStatusPercentage = autoCalc(isAutoCalcExit, stock, f.exitPrice, @)]

\* The record selected when fetchStockSymbolById rejects, from the fields
\* of initialData the call has captured
fallbackStock(tip) ==
  [_id |-> tip.stockId,
   currentPrice |-> IF tip.targetPrice # <<>> THEN tip.targetPrice
                                              ELSE <<"0">>]

\* The length of `${stock.symbol} Investment Tip`
autoTitle(stock) == Len(SymbolOf(stock._id)) + AutoTitleSuffixLen

\* The parent opens the dialog with data (NoTip: create).  The reset
\* effect runs: for a tip with a stock id, fetchStockDetails up to its
\* await, then reset(form values).  A run issues at most cap calls of
\* fetchStockSymbolById.
OpenDialogCapped(data, cap) ==
  /\ tipPhase = "mounted"
  /\ ~open
  /\ open' = TRUE
  /\ initialData' = data
  /\ IF data # NoTip
       THEN /\ formStockId' = data.stockId
            /\ IF data.stockId = NoStockId
                 THEN UNCHANGED <<selectedStockDetails, detailInflight,
                                  detailCalls>>
                 ELSE IF cacheHas(stockDetailsCache, data.stockId)
                 THEN /\ selectedStockDetails' =
                           stockDetailsCache[data.stockId]
                      /\ UNCHANGED <<detailInflight, detailCalls>>
                 ELSE /\ detailCalls < cap
                      /\ detailCalls' = detailCalls + 1
                      /\ detailInflight' = detailInflight
                           \cup {[stockId |-> data.stockId,
                                  targetPrice |-> data.targetPrice,
                                  call |-> detailCalls']}
                      /\ UNCHANGED selectedStockDetails
            /\ UNCHANGED <<searchTerm, showResults, tipDebounceTimers>>
       ELSE /\ formStockId' = NoStockId
            /\ selectedStockDetails' = NoStock
            /\ TipSetTerm(<<>>)
            /\ showResults' = FALSE
            /\ UNCHANGED <<detailInflight, detailCalls>>
  /\ UNCHANGED <<tipPhase, tipSearchResults, tipIsSearching, tipToast,
                 tipDebounceGen, tipSearchInflight, tipSearchCalls,
                 stockDetailsCache>>
  /\ LET vals == resetValues(data)
         sel == selectedStockDetails'
     IN form' =
          [vals EXCEPT
             !.targetPercentage =
               IF <<vals.targetPrice, sel>>
                    # <<form.targetPrice, selectedStockDetails>>
                 THEN autoCalc(isAutoCalcTarget, sel, vals.targetPrice, @)
                 ELSE @,
             !.exitStatusPercentage =
               IF <<vals.exitPrice, sel>>
                    # <<form.exitPrice, selectedStockDetails>>
                 THEN autoCalc(isAutoCalcExit, sel, vals.exitPrice, @)
                 ELSE @]
  /\ UNCHANGED <<isAutoCalcTarget, isAutoCalcExit>>
  /\ formErrors' = {}
  /\ UNCHANGED <<submitInflight, submitCalls>>
  /\ UNCHANGED <<pageVars, subVars>>

OpenDialog(data) == OpenDialogCapped(data, MaxDetailCalls)

\* The parent closes the dialog (Cancel): the reset effect runs and does
\* nothing, the dialog's state stays.
CloseDialog ==
  /\ tipPhase = "mounted"
  /\ open
  /\ open' = FALSE
  /\ UNCHANGED <<tipPhase, initialData, searchTerm, tipSearchResults,
                 tipIsSearching, showResults, selectedStockDetails,
                 formStockId, tipToast, tipDebounceGen, tipDebounceTimers,
                 tipSearchInflight, tipSearchCalls,
                 stockDetailsCache, detailInflight, detailCalls>>
  /\ UNCHANGED formVars
  /\ UNCHANGED submitVars
  /\ UNCHANGED <<pageVars, subVars>>

\* fetchStockSymbolById resolves: the record is cached and selected.
DetailOk(req, stock) ==
  /\ req \in detailInflight
  /\ stock \in DetailResponses(req.stockId)
  /\ detailInflight' = detailInflight \ {req}
  /\ stockDetailsCache' = cacheSet(stockDetailsCache, req.stockId, stock)
  /\ selectedStockDetails' = stock
  /\ UNCHANGED <<tipPhase, open, initialData, searchTerm, tipSearchResults,
                 tipIsSearching, showResults, formStockId, tipToast,
                 tipDebounceGen, tipDebounceTimers, tipSearchInflight,
                 tipSearchCalls, detailCalls>>
  /\ form' = afterStockChange(form, stock)
  /\ UNCHANGED <<isAutoCalcTarget, isAutoCalcExit>>
  /\ UNCHANGED submitVars
  /\ UNCHANGED <<pageVars, subVars>>

\* Mutant: the fallback record is cached like a fetched one.
DetailFailCachesFallback(req) ==
  /\ req \in detailInflight
  /\ detailInflight' = detailInflight \ {req}
  /\ selectedStockDetails' = fallbackStock(req)
  /\ stockDetailsCache' =
       cacheSet(stockDetailsCache, req.stockId, fallbackStock(req))
  /\ UNCHANGED <<tipPhase, open, initialData, searchTerm, tipSearchResults,
                 tipIsSearching, showResults, formStockId, tipToast,
                 tipDebounceGen, tipDebounceTimers, tipSearchInflight,
                 tipSearchCalls, detailCalls>>
  /\ form' = afterStockChange(form, fallbackStock(req))
  /\ UNCHANGED <<isAutoCalcTarget, isAutoCalcExit>>
  /\ UNCHANGED submitVars
  /\ UNCHANGED <<pageVars, subVars>>

\* fetchStockSymbolById rejects: a fallback record built from the tip is
\* selected; the cache is not written.
DetailFail(req) ==
  /\ req \in detailInflight
  /\ detailInflight' = detailInflight \ {req}
  /\ selectedStockDetails' = fallbackStock(req)
  /\ UNCHANGED <<tipPhase, open, initialData, searchTerm, tipSearchResults,
                 tipIsSearching, showResults, formStockId, tipToast,
                 tipDebounceGen, tipDebounceTimers, tipSearchInflight,
                 tipSearchCalls, stockDetailsCache, detailCalls>>
  /\ form' = afterStockChange(form, fallbackStock(req))
  /\ UNCHANGED <<isAutoCalcTarget, isAutoCalcExit>>
  /\ UNCHANGED submitVars
  /\ UNCHANGED <<pageVars, subVars>>

\* formState.isSubmitting: handleSubmit has called onValidSubmit and the
\* call it awaits is pending.
isSubmitting == \E c \in submitInflight : c.viaHandleSubmit

\* The search box is rendered in the open dialog while no stock is
\* selected, and disabled during a submission.
TipSearchBoxShown ==
  /\ tipPhase = "mounted"
  /\ open
  /\ selectedStockDetails = NoStock
  /\ ~isSubmitting

\* The result list is rendered under the search box.
ResultListShown ==
  /\ tipPhase = "mounted"
  /\ open
  /\ selectedStockDetails = NoStock
  /\ showResults
  /\ Len(tipSearchResults) > 0

\* onChange of the dialog's search box
TipSetSearchTerm(term) ==
  /\ TipSearchBoxShown
  /\ term # searchTerm
  /\ TipSetTerm(term)
  /\ UNCHANGED <<tipPhase, open, initialData, tipSearchResults,
                 tipIsSearching, showResults, selectedStockDetails,
                 formStockId, tipToast, tipDebounceGen, tipSearchInflight,
                 tipSearchCalls, stockDetailsCache, detailInflight,
                 detailCalls>>
  /\ UNCHANGED formVars
  /\ UNCHANGED submitVars
  /\ UNCHANGED <<pageVars, subVars>>

\* A click on an entry of the result list
handleStockSelect(stock) ==
  /\ ResultListShown
  /\ \E i \in 1..Len(tipSearchResults) : tipSearchResults[i] = stock
  /\ selectedStockDetails' = stock
  /\ TipSetTerm(<<>>)
  /\ showResults' = FALSE
  /\ formStockId' = stock._id
  /\ stockDetailsCache' =
       IF stock._id # NoStockId
         THEN cacheSet(stockDetailsCache, stock._id, stock)
         ELSE stockDetailsCache
  /\ UNCHANGED <<tipPhase, open, initialData, tipSearchResults,
                 tipIsSearching, tipToast, tipDebounceGen, tipSearchInflight,
                 tipSearchCalls, detailInflight, detailCalls>>
  /\ form' = afterStockChange(
       [form EXCEPT !.stockSymbol = SymbolOf(stock._id),
                    !.title = IF @ = 0 THEN autoTitle(stock) ELSE @],
       stock)
  /\ UNCHANGED <<isAutoCalcTarget, isAutoCalcExit>>
  /\ UNCHANGED submitVars
  /\ UNCHANGED <<pageVars, subVars>>

\* A mouse press outside the rendered result list and the search box
handleClickOutside ==
  /\ ResultListShown
  /\ showResults' = FALSE
  /\ UNCHANGED <<tipPhase, open, initialData, searchTerm, tipSearchResults,
                 tipIsSearching, selectedStockDetails, formStockId, tipToast,
                 tipDebounceGen, tipDebounceTimers, tipSearchInflight,
                 tipSearchCalls, stockDetailsCache, detailInflight,
                 detailCalls>>
  /\ UNCHANGED formVars
  /\ UNCHANGED submitVars
  /\ UNCHANGED <<pageVars, subVars>>

\* The X button of the selected stock, disabled while a tip is edited
handleStockClear ==
  /\ tipPhase = "mounted"
  /\ open
  /\ ~isSubmitting
  /\ selectedStockDetails # NoStock
  /\ initialData = NoTip
  /\ selectedStockDetails' = NoStock
  /\ TipSetTerm(<<>>)
  /\ showResults' = FALSE
  /\ formStockId' = NoStockId
  /\ UNCHANGED <<tipPhase, open, initialData, tipSearchResults,
                 tipIsSearching, tipToast, tipDebounceGen, tipSearchInflight,
                 tipSearchCalls, stockDetailsCache, detailInflight,
                 detailCalls>>
  /\ form' = [form EXCEPT !.stockSymbol = <<>>]
  /\ UNCHANGED <<isAutoCalcTarget, isAutoCalcExit>>
  /\ UNCHANGED submitVars
  /\ UNCHANGED <<pageVars, subVars>>

\* useToast returns another toast function in the dialog
TipToastChange ==
  /\ tipPhase = "mounted"
  /\ tipDebounceGen < MaxGen
  /\ tipDebounceGen' = tipDebounceGen + 1
  /\ TipSearchEffect(searchTerm, tipDebounceGen')
  /\ UNCHANGED <<tipPhase, open, initialData, searchTerm, tipSearchResults,
                 tipIsSearching, showResults, selectedStockDetails,
                 formStockId, tipToast, tipSearchInflight, tipSearchCalls,
                 stockDetailsCache, detailInflight, detailCalls>>
  /\ UNCHANGED formVars
  /\ UNCHANGED submitVars
  /\ UNCHANGED <<pageVars, subVars>>

TipDebounceFire(t) ==
  /\ t \in tipDebounceTimers
  /\ tipDebounceTimers' = tipDebounceTimers \ {t}
  /\ IF tipTooShort(t.term)
       THEN /\ tipSearchResults' = <<>>
            /\ showResults' = FALSE
            /\ UNCHANGED <<tipIsSearching, tipSearchInflight, tipSearchCalls>>
       ELSE /\ tipSearchCalls < MaxTipCalls
            /\ tipSearchCalls' = tipSearchCalls + 1
            /\ tipIsSearching' = TRUE
            /\ tipSearchInflight' = tipSearchInflight
                 \cup {[term |-> t.term, call |-> tipSearchCalls']}
            /\ UNCHANGED <<tipSearchResults, showResults>>
  /\ UNCHANGED <<tipPhase, open, initialData, searchTerm,
                 selectedStockDetails, formStockId, tipToast, tipDebounceGen,
                 stockDetailsCache, detailInflight, detailCalls>>
  /\ UNCHANGED formVars
  /\ UNCHANGED submitVars
  /\ UNCHANGED <<pageVars, subVars>>

TipSearchOk(c, resp) ==
  /\ c \in tipSearchInflight
  /\ resp \in TipSearchResponses(c)
  /\ tipSearchInflight' = tipSearchInflight \ {c}
  /\ tipSearchResults' = resp
  /\ showResults' = TRUE
  /\ tipIsSearching' = FALSE
  /\ UNCHANGED <<tipPhase, open, initialData, searchTerm,
                 selectedStockDetails, formStockId, tipToast, tipDebounceGen,
                 tipDebounceTimers, tipSearchCalls,
                 stockDetailsCache, detailInflight, detailCalls>>
  /\ UNCHANGED formVars
  /\ UNCHANGED submitVars
  /\ UNCHANGED <<pageVars, subVars>>

TipSearchFail(c) ==
  /\ c \in tipSearchInflight
  /\ tipSearchInflight' = tipSearchInflight \ {c}
  /\ tipToast' = "Search Error"
  /\ tipSearchResults' = <<>>
  /\ showResults' = FALSE
  /\ tipIsSearching' = FALSE
  /\ UNCHANGED <<tipPhase, open, initialData, searchTerm,
                 selectedStockDetails, formStockId, tipDebounceGen,
                 tipDebounceTimers, tipSearchCalls,
                 stockDetailsCache, detailInflight, detailCalls>>
  /\ UNCHANGED formVars
  /\ UNCHANGED submitVars
  /\ UNCHANGED <<pageVars, subVars>>

\* ------------------------------------------- TipFormDialog: the form inputs
showTargetFields == form.action \in {"buy", "sell"}

showExitFields == form.action \in {"partial sell", "partial profit"}

\* The form is rendered in the open dialog; its inputs are disabled
\* during a submission.
FormShown == tipPhase = "mounted" /\ open /\ ~isSubmitting

FormFrame ==
  /\ UNCHANGED <<tipPhase, open, initialData, searchTerm, tipSearchResults,
                 tipIsSearching, showResults, selectedStockDetails,
                 formStockId, tipToast, tipDebounceGen, tipDebounceTimers,
                 tipSearchInflight, tipSearchCalls, stockDetailsCache,
                 detailInflight, detailCalls>>
  /\ UNCHANGED submitVars
  /\ UNCHANGED <<pageVars, subVars>>

\* Sample actions of the action select
ActionChoices == {"buy", "hold", "partial sell"}

\* Sample texts of a price input
PriceTexts == {<<>>, <<"0">>, <<"1", "8", "0">>, <<"1", "2", "0">>}

\* Sample text typed into a percentage input
PercentTexts == {<<"3", "0", "%">>}

\* The action select
SetAction(a) ==
  /\ FormShown
  /\ a # form.action
  /\ form' = [form EXCEPT !.action = a]
  /\ UNCHANGED <<isAutoCalcTarget, isAutoCalcExit>>
  /\ FormFrame

\* onChange of the target price input, and the effect on the new value
SetTargetPrice(v) ==
  /\ FormShown
  /\ showTargetFields
  /\ v # form.targetPrice
  /\ form' = [form EXCEPT
                !.targetPrice = v,
                !.targetPercentage =
                  autoCalc(isAutoCalcTarget, selectedStockDetails, v, @)]
  /\ UNCHANGED <<isAutoCalcTarget, isAutoCalcExit>>
  /\ FormFrame

\* onChange of the exit price input, and the effect on the new value
SetExitPrice(v) ==
  /\ FormShown
  /\ showExitFields
  /\ v # form.exitPrice
  /\ form' = [form EXCEPT
                !.exitPrice = v,
                !.exitStatusPercentage =
                  autoCalc(isAutoCalcExit, selectedStockDetails, v, @)]
  /\ UNCHANGED <<isAutoCalcTarget, isAutoCalcExit>>
  /\ FormFrame

\* The Auto/Manual button of the target percentage, and the effect on the
\* new flag
ToggleAutoCalcTarget ==
  /\ FormShown
  /\ showTargetFields
  /\ isAutoCalcTarget' = ~isAutoCalcTarget
  /\ form' = [form EXCEPT
                !.targetPercentage =
                  autoCalc(isAutoCalcTarget', selectedStockDetails,
                           form.targetPrice, @)]
  /\ UNCHANGED isAutoCalcExit
  /\ FormFrame

ToggleAutoCalcExit ==
  /\ FormShown
  /\ showExitFields
  /\ isAutoCalcExit' = ~isAutoCalcExit
  /\ form' = [form EXCEPT
                !.exitStatusPercentage =
                  autoCalc(isAutoCalcExit', selectedStockDetails,
                           form.exitPrice, @)]
  /\ UNCHANGED isAutoCalcTarget
  /\ FormFrame

\* onChange of the target percentage input, enabled in manual mode
SetTargetPercentage(v) ==
  /\ FormShown
  /\ showTargetFields
  /\ ~isAutoCalcTarget
  /\ v # form.targetPercentage
  /\ form' = [form EXCEPT !.targetPercentage = v]
  /\ UNCHANGED <<isAutoCalcTarget, isAutoCalcExit>>
  /\ FormFrame

\* onChange of the exit percentage input, enabled in manual mode
SetExitStatusPercentage(v) ==
  /\ FormShown
  /\ showExitFields
  /\ ~isAutoCalcExit
  /\ v # form.exitStatusPercentage
  /\ form' = [form EXCEPT !.exitStatusPercentage = v]
  /\ UNCHANGED <<isAutoCalcTarget, isAutoCalcExit>>
  /\ FormFrame

\* Sample texts of the buy range input
BuyRangeTexts == {<<"1", "-", "2">>, <<"1", "0", "0">>}

\* onChange of the buy range input
SetBuyRange(v) ==
  /\ FormShown
  /\ v # form.buyRange
  /\ form' = [form EXCEPT !.buyRange = v]
  /\ UNCHANGED <<isAutoCalcTarget, isAutoCalcExit>>
  /\ FormFrame

\* ------------------------------------------- TipFormDialog: the submission
SubmitFrame ==
  /\ UNCHANGED <<tipPhase, open, initialData, searchTerm, tipSearchResults,
                 tipIsSearching, showResults, selectedStockDetails,
                 formStockId, tipDebounceGen, tipDebounceTimers,
                 tipSearchInflight, tipSearchCalls, stockDetailsCache,
                 detailInflight, detailCalls>>
  /\ UNCHANGED formVars
  /\ UNCHANGED <<pageVars, subVars>>

\* Mutant: any initialData is taken for a stored tip.
isEditAnyData(data) == data # NoTip

\* initialData && initialData._id
isEdit(data) == data # NoTip /\ data._id # 0

\* onValidSubmit(data) up to its await, called by handleSubmit or by the
\* catch block of the form's onSubmit
onValidSubmit(viaHandleSubmit) ==
  IF selectedStockDetails = NoStock /\ formStockId = NoStockId
    THEN /\ tipToast' = "Error"
         /\ UNCHANGED <<submitInflight, submitCalls>>
    ELSE /\ submitCalls < MaxSubmitCalls
         /\ submitCalls' = submitCalls + 1
         /\ submitInflight' = submitInflight \cup
              {[kind |-> IF isEdit(initialData) THEN "update" ELSE "create",
                id |-> initialData._id,
                stockId |-> IF selectedStockDetails # NoStock
                              THEN selectedStockDetails._id
                              ELSE formStockId,
                targetPercentage |-> form.targetPercentage,
                exitStatusPercentage |-> form.exitStatusPercentage,
                viaHandleSubmit |-> viaHandleSubmit,
                call |-> submitCalls']}
         /\ UNCHANGED tipToast

\* The form's onSubmit.  handleSubmit runs the resolver and either records
\* the errors, or calls onValidSubmit, or rejects; when it rejects the
\* catch block calls onValidSubmit with the form's values as they are.
Submit(handleSubmitRejects) ==
  /\ FormShown
  /\ IF handleSubmitRejects
       THEN /\ onValidSubmit(FALSE)
            /\ UNCHANGED formErrors
       ELSE /\ formErrors' = tipSchema(formStockId, form)
            /\ IF formErrors' = {}
                 THEN onValidSubmit(TRUE)
                 ELSE UNCHANGED <<tipToast, submitInflight, submitCalls>>
  /\ SubmitFrame

\* Mutant: a failed submission also closes the dialog.
SubmitFailCloses(c) ==
  /\ c \in submitInflight
  /\ submitInflight' = submitInflight \ {c}
  /\ tipToast' = "Error"
  /\ open' = FALSE
  /\ UNCHANGED <<tipPhase, initialData, searchTerm, tipSearchResults,
                 tipIsSearching, showResults, selectedStockDetails,
                 formStockId, tipDebounceGen, tipDebounceTimers,
                 tipSearchInflight, tipSearchCalls, stockDetailsCache,
                 detailInflight, detailCalls>>
  /\ UNCHANGED <<formErrors, submitCalls>>
  /\ UNCHANGED formVars
  /\ UNCHANGED <<pageVars, subVars>>

\* updateTip or onSubmit rejects: the catch block of onValidSubmit.
SubmitFail(c) ==
  /\ c \in submitInflight
  /\ submitInflight' = submitInflight \ {c}
  /\ tipToast' = "Error"
  /\ UNCHANGED <<formErrors, submitCalls>>
  /\ SubmitFrame

\* updateTip or onSubmit resolves: the toast, onOpenChange(false) (the
\* parent closes the dialog), reset() to the values of the last reset,
\* and the local state.
SubmitOk(c) ==
  /\ c \in submitInflight
  /\ submitInflight' = submitInflight \ {c}
  /\ tipToast' = "Success"
  /\ open' = FALSE
  /\ form' = resetValues(initialData)
  /\ formStockId' = initialData.stockId
  /\ formErrors' = {}
  /\ selectedStockDetails' = NoStock
  /\ TipSetTerm(<<>>)
  /\ showResults' = FALSE
  /\ UNCHANGED <<tipPhase, initialData, tipSearchResults, tipIsSearching,
                 tipDebounceGen, tipSearchInflight, tipSearchCalls,
                 stockDetailsCache, detailInflight, detailCalls,
                 isAutoCalcTarget, isAutoCalcExit, submitCalls>>
  /\ UNCHANGED <<pageVars, subVars>>

\* --------------------------------------------------------- SubscriptionsPage
\* The page lives on its own screen: a run follows one of the three.
\* The answers of fetchSubscriptions and fetchPaymentHistory: lists of ids
SubscriptionLists == {<<>>, <<1>>}

PaymentLists == {<<>>, <<1>>}

\* The statuses openStatusDialog is written for (the row's button passes
\* "cancelled")
Statuses == {"cancelled", "active"}

\* loadData up to its first await: setIsLoading(true), then
\* fetchSubscriptions is called.  The record holds the call's local
\* variables.
loadData ==
  /\ loadCalls < MaxLoadCalls
  /\ loadCalls' = loadCalls + 1
  /\ subIsLoading' = TRUE
  /\ loadInflight' = loadInflight \cup
       {[call |-> loadCalls', stage |-> "subscriptions",
         subscriptionsData |-> <<>>, usingMockSubscriptions |-> FALSE]}

\* The mount effect on [loadData]
SubMount ==
  /\ subPhase = "init"
  /\ phase = "init"
  /\ tipPhase = "init"
  /\ subPhase' = "mounted"
  /\ loadData
  /\ UNCHANGED <<subscriptions, paymentHistory, usingMockData,
                 statusDialogOpen, selectedSubscription, newStatus, subToast,
                 statusInflight, statusCalls>>
  /\ UNCHANGED <<pageVars, tipVars>>

\* The Refresh button
SubRefresh ==
  /\ subPhase = "mounted"
  /\ loadData
  /\ UNCHANGED <<subPhase, subscriptions, paymentHistory, usingMockData,
                 statusDialogOpen, selectedSubscription, newStatus, subToast,
                 statusInflight, statusCalls>>
  /\ UNCHANGED <<pageVars, tipVars>>

\* fetchSubscriptions resolves: loadData goes on to fetchPaymentHistory.
SubsFetchOk(l, data) ==
  /\ l \in loadInflight
  /\ l.stage = "subscriptions"
  /\ data \in SubscriptionLists
  /\ loadInflight' = (loadInflight \ {l}) \cup
       {[l EXCEPT !.stage = "payments", !.subscriptionsData = data]}
  /\ UNCHANGED <<subPhase, subscriptions, paymentHistory, subIsLoading,
                 usingMockData, statusDialogOpen, selectedSubscription,
                 newStatus, subToast, loadCalls, statusInflight, statusCalls>>
  /\ UNCHANGED <<pageVars, tipVars>>

\* Mutant: a failed subscriptions fetch ends the load like the outer catch.
SubsFetchFailAborts(l) ==
  /\ l \in loadInflight
  /\ l.stage = "subscriptions"
  /\ loadInflight' = loadInflight \ {l}
  /\ subToast' = "Failed to load data"
  /\ usingMockData' = [subscriptions |-> TRUE, payments |-> TRUE]
  /\ subIsLoading' = FALSE
  /\ UNCHANGED <<subPhase, subscriptions, paymentHistory, statusDialogOpen,
                 selectedSubscription, newStatus, loadCalls, statusInflight,
                 statusCalls>>
  /\ UNCHANGED <<pageVars, tipVars>>

\* fetchSubscriptions rejects: the inner catch shows the toast and falls
\* back to the empty list; loadData goes on to fetchPaymentHistory.
SubsFetchFail(l) ==
  /\ l \in loadInflight
  /\ l.stage = "subscriptions"
  /\ loadInflight' = (loadInflight \ {l}) \cup
       {[l EXCEPT !.stage = "payments", !.subscriptionsData = <<>>,
                  !.usingMockSubscriptions = TRUE]}
  /\ subToast' = "Failed to load subscriptions"
  /\ UNCHANGED <<subPhase, subscriptions, paymentHistory, subIsLoading,
                 usingMockData, statusDialogOpen, selectedSubscription,
                 newStatus, loadCalls, statusInflight, statusCalls>>
  /\ UNCHANGED <<pageVars, tipVars>>

\* fetchPaymentHistory resolves: the three setters, then finally.
PaysFetchOk(l, data) ==
  /\ l \in loadInflight
  /\ l.stage = "payments"
  /\ data \in PaymentLists
  /\ loadInflight' = loadInflight \ {l}
  /\ subscriptions' = l.subscriptionsData
  /\ paymentHistory' = data
  /\ usingMockData' = [subscriptions |-> l.usingMockSubscriptions,
                       payments |-> FALSE]
  /\ subIsLoading' = FALSE
  /\ UNCHANGED <<subPhase, statusDialogOpen, selectedSubscription, newStatus,
                 subToast, loadCalls, statusInflight, statusCalls>>
  /\ UNCHANGED <<pageVars, tipVars>>

\* Mutant: the failed payment-history fetch skips the finally block.
PaysFetchFailKeepsLoading(l) ==
  /\ l \in loadInflight
  /\ l.stage = "payments"
  /\ loadInflight' = loadInflight \ {l}
  /\ subscriptions' = l.subscriptionsData
  /\ paymentHistory' = <<>>
  /\ usingMockData' = [subscriptions |-> l.usingMockSubscriptions,
                       payments |-> TRUE]
  /\ UNCHANGED <<subPhase, subIsLoading, statusDialogOpen,
                 selectedSubscription, newStatus, subToast, loadCalls,
                 statusInflight, statusCalls>>
  /\ UNCHANGED <<pageVars, tipVars>>

\* fetchPaymentHistory rejects: the inner catch falls back to the empty
\* list, then the three setters and finally.
PaysFetchFail(l) ==
  /\ l \in loadInflight
  /\ l.stage = "payments"
  /\ loadInflight' = loadInflight \ {l}
  /\ subscriptions' = l.subscriptionsData
  /\ paymentHistory' = <<>>
  /\ usingMockData' = [subscriptions |-> l.usingMockSubscriptions,
                       payments |-> TRUE]
  /\ subIsLoading' = FALSE
  /\ UNCHANGED <<subPhase, statusDialogOpen, selectedSubscription, newStatus,
                 subToast, loadCalls, statusInflight, statusCalls>>
  /\ UNCHANGED <<pageVars, tipVars>>

\* The button of a row of the subscriptions table, rendered when the page
\* is not loading and no modal dialog is open
openStatusDialog(subscription, status) ==
  /\ subPhase = "mounted"
  /\ ~subIsLoading
  /\ ~statusDialogOpen
  /\ \E i \in 1..Len(subscriptions) : subscriptions[i] = subscription
  /\ selectedSubscription' = subscription
  /\ newStatus' = status
  /\ statusDialogOpen' = TRUE
  /\ UNCHANGED <<subPhase, subscriptions, paymentHistory, subIsLoading,
                 usingMockData, subToast, loadInflight, loadCalls,
                 statusInflight, statusCalls>>
  /\ UNCHANGED <<pageVars, tipVars>>

\* onOpenChange(false) of the confirm dialog
CloseStatusDialog ==
  /\ subPhase = "mounted"
  /\ statusDialogOpen
  /\ statusDialogOpen' = FALSE
  /\ UNCHANGED <<subPhase, subscriptions, paymentHistory, subIsLoading,
                 usingMockData, selectedSubscription, newStatus, subToast,
                 loadInflight, loadCalls, statusInflight, statusCalls>>
  /\ UNCHANGED <<pageVars, tipVars>>

\* Mutant: every status goes to updateSubscriptionStatus.
statusOperationAlwaysUpdate(status) == "update"

\* The remote operation handleUpdateStatus chooses for a status
statusOperation(status) == IF status = "cancelled" THEN "cancel" ELSE "update"

\* onConfirm of the confirm dialog: handleUpdateStatus up to its await
handleUpdateStatus ==
  /\ subPhase = "mounted"
  /\ statusDialogOpen
  /\ IF selectedSubscription = NoSubscription \/ newStatus = ""
       THEN UNCHANGED <<statusInflight, statusCalls>>
       ELSE /\ statusCalls < MaxStatusCalls
            /\ statusCalls' = statusCalls + 1
            /\ statusInflight' = statusInflight \cup
                 {[op |-> statusOperation(newStatus),
                   id |-> selectedSubscription, status |-> newStatus,
                   call |-> statusCalls']}
  /\ UNCHANGED <<subPhase, subscriptions, paymentHistory, subIsLoading,
                 usingMockData, statusDialogOpen, selectedSubscription,
                 newStatus, subToast, loadInflight, loadCalls>>
  /\ UNCHANGED <<pageVars, tipVars>>

\* The operation resolves: the toast, setStatusDialogOpen(false), loadData().
StatusOpOk(o) ==
  /\ o \in statusInflight
  /\ statusInflight' = statusInflight \ {o}
  /\ subToast' = IF o.op = "cancel" THEN "Subscription Cancelled"
                                    ELSE "Status Updated"
  /\ statusDialogOpen' = FALSE
  /\ loadData
  /\ UNCHANGED <<subPhase, subscriptions, paymentHistory, usingMockData,
                 selectedSubscription, newStatus, statusCalls>>
  /\ UNCHANGED <<pageVars, tipVars>>

\* The operation rejects: the catch block of handleUpdateStatus.
StatusOpFail(o) ==
  /\ o \in statusInflight
  /\ statusInflight' = statusInflight \ {o}
  /\ subToast' = "Failed to update status"
  /\ UNCHANGED <<subPhase, subscriptions, paymentHistory, subIsLoading,
                 usingMockData, statusDialogOpen, selectedSubscription,
                 newStatus, loadInflight, loadCalls, statusCalls>>
  /\ UNCHANGED <<pageVars, tipVars>>

\* ----------------------------------------------------------- specifications
\* The refresh loop and the loads of StockSymbolsPage.
Next ==
  \/ \E a \in {"true", "false", "throws"} : Mount(a)
  \/ Unmount
  \/ ToggleRealTime
  \/ \E k \in IntervalChoices : SetRefreshInterval(k)
  \/ \E t \in intervalTimers : TickFire(t)
  \/ \E q \in inflight : \E r \in Responses(q) : TickOk(q, r)
  \/ \E q \in inflight : TickFail(q)
  \/ \E p \in 1..NumPages : LoadStart(p)
  \/ \E q \in inflight : \E r \in Responses(q) : LoadOk(q, r)
  \/ \E q \in inflight : LoadFail(q)

Spec == Init /\ [][Next]_vars

\* The debounced search of StockSymbolsPage.
PageSearchNext ==
  \/ \E a \in {"true", "false", "throws"} : Mount(a)
  \/ Unmount
  \/ \E term \in Terms : SetSearchQuery(term)
  \/ ToastChange
  \/ \E t \in debounceTimers : DebounceFire(t)
  \/ \E c \in searchInflight : \E r \in SearchResponses(c) : SearchOk(c, r)
  \/ \E c \in searchInflight : SearchFail(c)

\* The dialog: its search, its selection and the detail cache, with a
\* toast function of stable identity.
TipNext ==
  \/ TipMount
  \/ \E data \in {NoTip} \cup StoredTips : OpenDialog(data)
  \/ CloseDialog
  \/ \E q \in detailInflight : \E st \in Stocks : DetailOk(q, st)
  \/ \E q \in detailInflight : DetailFail(q)
  \/ \E term \in Terms : TipSetSearchTerm(term)
  \/ \E st \in Stocks : handleStockSelect(st)
  \/ handleStockClear
  \/ handleClickOutside
  \/ \E t \in tipDebounceTimers : TipDebounceFire(t)
  \/ \E c \in tipSearchInflight :
        \E r \in TipSearchResponses(c) : TipSearchOk(c, r)
  \/ \E c \in tipSearchInflight : TipSearchFail(c)

TipSpec == Init /\ [][TipNext]_vars

\* The dialog's prices and percentages: the stock comes with the tip that
\* is edited.
CalcNext ==
  \/ TipMount
  \/ \E data \in {NoTip} \cup PricedTips : OpenDialog(data)
  \/ CloseDialog
  \/ \E q \in detailInflight : \E st \in Stocks : DetailOk(q, st)
  \/ \E q \in detailInflight : DetailFail(q)
  \/ \E a \in ActionChoices : SetAction(a)
  \/ \E v \in PriceTexts : SetTargetPrice(v)
  \/ \E v \in PriceTexts : SetExitPrice(v)
  \/ ToggleAutoCalcTarget
  \/ ToggleAutoCalcExit
  \/ \E v \in PercentTexts : SetTargetPercentage(v)
  \/ \E v \in PercentTexts : SetExitStatusPercentage(v)

CalcSpec == Init /\ [][CalcNext]_vars

\* The dialog's submission: the stock comes with the tip that is edited.
SubmitNext ==
  \/ TipMount
  \/ \E data \in {NoTip} \cup Tips : OpenDialog(data)
  \/ CloseDialog
  \/ \E q \in detailInflight : \E st \in Stocks : DetailOk(q, st)
  \/ \E q \in detailInflight : DetailFail(q)
  \/ \E v \in BuyRangeTexts : SetBuyRange(v)
  \/ \E rejects \in BOOLEAN : Submit(rejects)
  \/ \E c \in submitInflight : SubmitOk(c)
  \/ \E c \in submitInflight : SubmitFail(c)

SubmitSpec == Init /\ [][SubmitNext]_vars

\* The buy range validation: texts of up to MaxRangeLen characters and the
\* documented examples, typed into the form of a tip that is otherwise valid.
MaxRangeLen == 3

RangeChars == {"1", ".", "-", " ", "a"}

RangeExamples ==
  { <<"1", "0", "0", "-", "2", "0", "0">>,
    <<"1", "0", "0", "-", " ", "2", "0", "0", "-">>,
    <<"a", "b", "c", "-", "2", "0", "0">>,
    <<"1", ".", "5", " ", "-", " ", "2">> }

RangeTexts ==
  RangeExamples \cup UNION {[1..n -> RangeChars] : n \in 0..MaxRangeLen}

RangeNext ==
  \/ TipMount
  \/ \E data \in {NoTip, TipDraft} : OpenDialog(data)
  \/ CloseDialog
  \/ \E q \in detailInflight : \E st \in Stocks : DetailOk(q, st)
  \/ \E v \in RangeTexts : SetBuyRange(v)
  \/ Submit(FALSE)

RangeSpec == Init /\ [][RangeNext]_vars

\* The detail fetch and its repetition: the dialog is opened and closed for
\* stored tips, and a run may issue MaxRefetchCalls calls of
\* fetchStockSymbolById.
MaxRefetchCalls == 2

RefetchNext ==
  \/ TipMount
  \/ \E data \in PricedTips : OpenDialogCapped(data, MaxRefetchCalls)
  \/ CloseDialog
  \/ \E q \in detailInflight : \E st \in Stocks : DetailOk(q, st)
  \/ \E q \in detailInflight : DetailFail(q)

RefetchSpec == Init /\ [][RefetchNext]_vars

\* The subscriptions page.
SubNext ==
  \/ SubMount
  \/ SubRefresh
  \/ \E l \in loadInflight : \E d \in SubscriptionLists : SubsFetchOk(l, d)
  \/ \E l \in loadInflight : SubsFetchFail(l)
  \/ \E l \in loadInflight : \E d \in PaymentLists : PaysFetchOk(l, d)
  \/ \E l \in loadInflight : PaysFetchFail(l)
  \/ \E i \in 1..Len(subscriptions) : \E st \in Statuses :
        openStatusDialog(subscriptions[i], st)
  \/ CloseStatusDialog
  \/ handleUpdateStatus
  \/ \E o \in statusInflight : StatusOpOk(o)
  \/ \E o \in statusInflight : StatusOpFail(o)

SubSpec == Init /\ [][SubNext]_vars

\* The loads of the stock-symbols page and of the subscriptions page, with
\* every remote call answered in the end.
LoadNext ==
  \/ \E a \in {"true", "false", "throws"} : Mount(a)
  \/ Unmount
  \/ \E p \in 1..NumPages : LoadStart(p)
  \/ \E q \in inflight : \E r \in Responses(q) : LoadOk(q, r)
  \/ \E q \in inflight : LoadFail(q)
  \/ SubMount
  \/ SubRefresh
  \/ \E l \in loadInflight : \E d \in SubscriptionLists : SubsFetchOk(l, d)
  \/ \E l \in loadInflight : SubsFetchFail(l)
  \/ \E l \in loadInflight : \E d \in PaymentLists : PaysFetchOk(l, d)
  \/ \E l \in loadInflight : PaysFetchFail(l)

\* fetchStockSymbols settles
PageLoadSettles ==
  \E q \in inflight :
    LoadFail(q) \/ \E r \in Responses(q) : LoadOk(q, r)

\* fetchSubscriptions or fetchPaymentHistory settles
SubLoadSettles ==
  \E l \in loadInflight :
    \/ SubsFetchFail(l)
    \/ PaysFetchFail(l)
    \/ \E d \in SubscriptionLists : SubsFetchOk(l, d)
    \/ \E d \in PaymentLists : PaysFetchOk(l, d)

LoadSpec ==
  /\ Init
  /\ [][LoadNext]_vars
  /\ WF_vars(PageLoadSettles)
  /\ WF_vars(SubLoadSettles)

\* The dialog's submission after a search: a new tip, or the stored tip
\* TipBuy.
ResetNext ==
  \/ TipMount
  \/ \E data \in {NoTip, TipBuy} : OpenDialog(data)
  \/ CloseDialog
  \/ \E q \in detailInflight : \E st \in Stocks : DetailOk(q, st)
  \/ \E term \in Terms : TipSetSearchTerm(term)
  \/ \E t \in tipDebounceTimers : TipDebounceFire(t)
  \/ \E c \in tipSearchInflight :
        \E r \in TipSearchResponses(c) : TipSearchOk(c, r)
  \/ \E st \in Stocks : handleStockSelect(st)
  \/ \E rejects \in BOOLEAN : Submit(rejects)
  \/ \E c \in submitInflight : SubmitOk(c)
  \/ \E c \in submitInflight : SubmitFail(c)

ResetSpec == Init /\ [][ResetNext]_vars

\* The debounced search of either screen.
TipSearchNext ==
  \/ TipMount
  \/ OpenDialog(NoTip)
  \/ CloseDialog
  \/ \E term \in Terms : TipSetSearchTerm(term)
  \/ TipToastChange
  \/ \E t \in tipDebounceTimers : TipDebounceFire(t)
  \/ \E c \in tipSearchInflight :
        \E r \in TipSearchResponses(c) : TipSearchOk(c, r)
  \/ \E c \in tipSearchInflight : TipSearchFail(c)

SearchNext == PageSearchNext \/ TipSearchNext

SearchSpec == Init /\ [][SearchNext]_vars

\* ------------------------------------------------------------------ claims
TickFireStep == \E t \in intervalTimers : TickFire(t)

TickFailStep == \E q \in inflight : TickFail(q)

\* The loop is running as configured: exactly one active timer, the one
\* intervalRef holds, with the period selected in the interval menu.
LoopRunning ==
  /\ intervalRef # NoTimer
  /\ \E t \in intervalTimers :
       /\ intervalTimers = {t}
       /\ t.id = intervalRef
       /\ t.period = REFRESH_INTERVALS[refreshInterval]

\* C1: at most one refresh-interval timer is active at any time, and it is
\* the one intervalRef holds: whatever the sequence of toggles, interval
\* changes, authentication outcomes and unmount, starting a timer never
\* leaves an earlier one active.
C1_AtMostOneRefreshTimer ==
  /\ Cardinality(intervalTimers) <= 1
  /\ \A t \in intervalTimers : t.id = intervalRef

\* The interval was switched after the loop had already produced updates,
\* and one timer with the new period is active.
C1_Witness ==
  /\ isRealTimeEnabled
  /\ refreshInterval # "30"
  /\ \E t \in intervalTimers :
       /\ intervalTimers = {t}
       /\ t.period = REFRESH_INTERVALS[refreshInterval]
       /\ t.counter > 0

\* C2: while the loop is stopped (real-time refresh is off, or no timer is
\* registered) no step starts a tick: the clock of ticks does not advance
\* and no new tick request is issued.
C2_NoTickWhileStopped ==
  [][(~isRealTimeEnabled \/ intervalRef = NoTimer) =>
       /\ ~TickFireStep
       /\ {q \in inflight' : q.kind = "tick"} \subseteq inflight]_vars

\* Real-time refresh was switched off after the loop had ticked.
C2_Witness ==
  /\ phase = "mounted"
  /\ ~isRealTimeEnabled
  /\ intervalRef = NoTimer
  /\ updateCounter > 0
  /\ clock = MaxClock

\* C6: a tick whose fetch fails sets isConnected to false and leaves the
\* rows, the pagination, the last-update timestamp, the update counter and
\* the timer as they were; and whenever real-time refresh is enabled on a
\* mounted, authenticated page the loop is running at the selected period,
\* whether or not the page is connected.
C6_FailedTickKeepsLoop ==
  /\ [][TickFailStep =>
          /\ phase = "mounted" => isConnected' = FALSE
          /\ UNCHANGED <<stockSymbols, pagination, lastUpdateTime,
                         updateCounter, intervalRef, intervalTimers,
                         isRealTimeEnabled, refreshInterval>>]_vars
  /\ [](Interactive /\ isRealTimeEnabled => LoopRunning)

\* A tick has failed (no load failure explains the lost connection), rows
\* of an earlier success are displayed and the loop is still running.
C6_Witness ==
  /\ Interactive
  /\ isRealTimeEnabled
  /\ ~isConnected
  /\ lastToast # "Error loading stock symbols"
  /\ updateCounter > 0
  /\ stockSymbols # <<>>
  /\ LoopRunning

\* C7: a tick issues exactly one fetchStockSymbols call, and when that
\* call succeeds on the mounted page the rows become the response's rows,
\* the last-update timestamp becomes the time the tick read, the update
\* counter grows by exactly 1 and isConnected becomes true.
C7_TickFetchesOnceAndUpdates ==
  [][/\ TickFireStep =>
          \E q \in inflight' \ inflight :
             /\ q.kind = "tick"
             /\ inflight' = inflight \cup {q}
     /\ \A q \in inflight : \A r \in Responses(q) :
          (TickOk(q, r) /\ phase = "mounted") =>
             /\ stockSymbols' = r.data
             /\ lastUpdateTime' = q.now
             /\ lastUpdateTime' # Never
             /\ updateCounter' = updateCounter + 1
             /\ isConnected' = TRUE]_vars

\* Two ticks have succeeded and the rows of the later one are displayed.
C7_Witness ==
  /\ phase = "mounted"
  /\ updateCounter = 2
  /\ isConnected
  /\ lastUpdateTime = MaxClock
  /\ stockSymbols # <<>>
  /\ stockSymbols[1].asOf = lastUpdateTime

\* C8: the update counter never decreases, whatever the step.
C8_UpdateCounterMonotonic == [][updateCounter' >= updateCounter]_vars

\* The counter has grown twice, the interval has been changed and the loop
\* has since been switched off.
C8_Witness ==
  /\ updateCounter = 2
  /\ ~isRealTimeEnabled
  /\ refreshInterval # "30"
  /\ intervalTimers = {}

\* C9: a tick requests the page and the limit the pagination state shows
\* at the time of the tick.
C9_TickRequestsDisplayedPage ==
  [][\A t \in intervalTimers :
       TickFire(t) => /\ t.page = pagination.page
                      /\ t.limit = pagination.limit]_vars

\* ------------------------------------------------------ claims: the search
\* C3: once the quiet period after a burst of input changes is over (no
\* debounce timer pending on the stock-symbols page), every search call
\* the burst issued used the final value of the search box, and a final
\* value of two characters or more issued exactly one call.
C3_OneCallWithFinalValue ==
  (phase = "mounted" /\ debounceTimers = {}) =>
    /\ \A i \in 1..Len(burst) : burst[i] = searchQuery
    /\ Len(searchQuery) >= MinSearchLen => Len(burst) = 1

\* C4: a debounced callback invoked with a term shorter than two
\* characters issues no searchStockSymbols call and sets the result list
\* to empty, on the page and in the dialog; clearing the page's box does
\* the same at once; no call is ever in flight for such a term.
C4_ShortTermNoCall ==
  /\ [][\A t \in debounceTimers :
          (DebounceFire(t) /\ Len(t.term) < 2) =>
            /\ searchInflight' = searchInflight
            /\ searchCalls' = searchCalls
            /\ phase = "mounted" => searchResults' = NoResults]_vars
  /\ [][SetSearchQuery(<<>>) =>
          /\ searchInflight' = searchInflight
          /\ searchCalls' = searchCalls
          /\ searchResults' = NoResults]_vars
  /\ [][\A t \in tipDebounceTimers :
          (TipDebounceFire(t) /\ Len(t.term) < 2) =>
            /\ tipSearchInflight' = tipSearchInflight
            /\ tipSearchCalls' = tipSearchCalls
            /\ tipSearchResults' = <<>>]_vars
  /\ [](\A c \in searchInflight \cup tipSearchInflight : Len(c.term) >= 2)

\* A one-character term's callback has run on the page after an earlier
\* search: nothing in flight, the list emptied without a failure.
C4_Witness ==
  /\ phase = "mounted"
  /\ Len(searchQuery) = 1
  /\ debounceTimers = {}
  /\ searchCalls = 1
  /\ searchInflight = {}
  /\ searchResults = NoResults
  /\ lastToast = "none"

\* C5: at most one debounce timer is pending per screen.
C5_AtMostOneDebounceTimer ==
  /\ Cardinality(debounceTimers) <= 1
  /\ Cardinality(tipDebounceTimers) <= 1

\* ------------------------------------------------ claims: the detail cache
\* C10: when the dialog opens for a tip whose stockId is a key of
\* stockDetailsCache, no fetchStockSymbolById call is issued and the
\* cached record becomes the selected stock; a call is issued, for that
\* id and only one, exactly when the key is absent.
C10_CacheConsultedBeforeFetch ==
  [][\A tip \in Tips :
       (OpenDialog(tip) /\ tip.stockId # NoStockId) =>
         IF tip.stockId \in DOMAIN stockDetailsCache
           THEN /\ detailInflight' = detailInflight
                /\ detailCalls' = detailCalls
                /\ selectedStockDetails' = stockDetailsCache[tip.stockId]
           ELSE /\ detailCalls' = detailCalls + 1
                /\ \E q \in detailInflight' :
                     /\ q.stockId = tip.stockId
                     /\ detailInflight' = detailInflight \cup {q}
                     /\ q \notin detailInflight]_vars

\* The dialog is open for a tip whose stock is cached and selected, and no
\* fetchStockSymbolById call was ever issued.
C10_Witness ==
  /\ open
  /\ initialData \in Tips
  /\ initialData.stockId \in DOMAIN stockDetailsCache
  /\ selectedStockDetails = stockDetailsCache[initialData.stockId]
  /\ formStockId = initialData.stockId
  /\ detailCalls = 0
  /\ detailInflight = {}

C19_SearchFailureHandled ==
  /\ [][\A c \in searchInflight :
          (SearchFail(c) /\ phase = "mounted") =>
            /\ searchResults' = NoResults
            /\ lastToast' = "Search Error"
            /\ isSearching' = FALSE
            /\ UNCHANGED <<phase, searchQuery, debounceTimers, error>>]_vars
  /\ [][\A c \in tipSearchInflight :
          TipSearchFail(c) =>
            /\ tipSearchResults' = <<>>
            /\ showResults' = FALSE
            /\ tipToast' = "Search Error"
            /\ tipIsSearching' = FALSE
            /\ UNCHANGED <<tipPhase, open, searchTerm,
                           tipDebounceTimers>>]_vars

\* On the page a search has failed while another one was still pending:
\* list empty, notification shown, flag reset.
C19_Witness ==
  /\ phase = "mounted"
  /\ lastToast = "Search Error"
  /\ searchResults = NoResults
  /\ ~isSearching
  /\ searchInflight # {}

\* C20: a failed loadStockSymbols on the mounted page leaves the rows, the
\* pagination and the last-update timestamp as they were, sets the error
\* message and the notification, sets isConnected to false and ends the
\* loading state; the rejection ends in the catch block.
C20_FailedLoadKeepsLastGood ==
  [][\A q \in inflight :
       (LoadFail(q) /\ phase = "mounted") =>
         /\ UNCHANGED <<stockSymbols, pagination, lastUpdateTime>>
         /\ error' = "loadError"
         /\ lastToast' = "Error loading stock symbols"
         /\ isConnected' = FALSE
         /\ isLoading' = FALSE
         /\ UNCHANGED <<phase, isUserAuthenticated, updateCounter,
                        intervalRef, intervalTimers>>]_vars

\* A load has failed after an earlier one succeeded: the rows and the
\* timestamp of the success are still displayed.
C20_Witness ==
  /\ phase = "mounted"
  /\ error = "loadError"
  /\ lastToast = "Error loading stock symbols"
  /\ ~isConnected
  /\ ~isLoading
  /\ stockSymbols # <<>>
  /\ lastUpdateTime # Never

\* ------------------------------------------- claims: the auto-calculation
\* The text is a number with two decimals followed by "%", and the number
\* is within half a hundredth of (price - reference) / reference * 100.
IsRoundedPercentage(text, price, reference) ==
  LET p == parseFloat(text)
      \* text = p.num / 100; the exact value is xn / xd, with xd > 0
      xn == (price.num * reference.den - reference.num * price.den) * 100
      xd == reference.num * price.den
      diff == p.num * xd - 100 * xn
  IN /\ Len(text) >= 5
     /\ text[Len(text)] = "%"
     /\ text[Len(text) - 3] = "."
     /\ ~p.nan
     /\ p.den = 100
     /\ 2 * diff <= xd
     /\ 2 * diff >= 0 - xd

\* What the claim says of a price input's change to the text v, for the
\* percentage before and after
PercentageAsClaimed(v, stock, before, after) ==
  LET reference == parseFloat(stock.currentPrice)
      price == parseFloat(v)
  IN IF price.nan THEN after = before
     ELSE IF IsPositive(reference)
       THEN IsRoundedPercentage(after, price, reference)
       ELSE after = before

\* C12: with auto-calculate on and a stock selected, a change of the
\* target (exit) price to a number writes round((price - reference) /
\* reference * 100, 2) followed by "%" into the target (exit) percentage
\* when the stock's current price is positive, and leaves the percentage
\* unchanged when it is not.
C12_AutoCalcPercentage ==
  /\ [][\A v \in PriceTexts :
          (SetTargetPrice(v) /\ isAutoCalcTarget
             /\ selectedStockDetails # NoStock) =>
            PercentageAsClaimed(v, selectedStockDetails,
                                form.targetPercentage,
                                form'.targetPercentage)]_vars
  /\ [][\A v \in PriceTexts :
          (SetExitPrice(v) /\ isAutoCalcExit
             /\ selectedStockDetails # NoStock) =>
            PercentageAsClaimed(v, selectedStockDetails,
                                form.exitStatusPercentage,
                                form'.exitStatusPercentage)]_vars

\* A step that changes the selected stock or a price without resetting
\* the form
StockOrPriceStep ==
  \/ \E v \in PriceTexts : SetTargetPrice(v) \/ SetExitPrice(v)
  \/ \E q \in detailInflight : \E st \in Stocks : DetailOk(q, st)
  \/ \E q \in detailInflight : DetailFail(q)
  \/ \E st \in Stocks : handleStockSelect(st)
  \/ handleStockClear

\* C13: while an auto-calculate flag is off, no change of a price or of
\* the selected stock modifies the corresponding percentage (a reset of
\* the whole form on opening the dialog is not such a change).
C13_ManualFreezesPercentage ==
  /\ [][(StockOrPriceStep /\ ~isAutoCalcTarget) =>
          form'.targetPercentage = form.targetPercentage]_vars
  /\ [][(StockOrPriceStep /\ ~isAutoCalcExit) =>
          form'.exitStatusPercentage = form.exitStatusPercentage]_vars

\* In manual mode the percentage typed by hand stands next to a target
\* price typed afterwards or before, for a stock with a positive price.
C13_Witness ==
  /\ open
  /\ ~isAutoCalcTarget
  /\ IsPositive(parseFloat(selectedStockDetails.currentPrice))
  /\ form.targetPrice = <<"1", "2", "0">>
  /\ form.targetPercentage = <<"3", "0", "%">>

\* ------------------------------------------------ claims: the submission
\* The calls a step adds to the pending submissions
NewSubmitCalls == submitInflight' \ submitInflight

\* C14: a submission that handleSubmit validates, with action "buy" and no
\* target price, fails validation with an error on targetPrice and issues
\* no call; with action "hold" and no target price the target price is
\* not reported.
C14_TargetPriceRequiredForBuy ==
  [][(Submit(FALSE) /\ form.targetPrice = <<>>) =>
       /\ form.action = "buy" =>
            ("targetPrice" \in formErrors' /\ NewSubmitCalls = {})
       /\ form.action = "hold" => "targetPrice" \notin formErrors']_vars

\* C15: only the submit handler issues a call, one per submission; the
\* call is updateTip with the tip's id when initialData has a non-empty
\* _id, and the create callback otherwise.
C15_UpdateOrCreate ==
  /\ [][NewSubmitCalls # {} => \E rejects \in BOOLEAN : Submit(rejects)]_vars
  /\ [][\A rejects \in BOOLEAN :
          (Submit(rejects) /\ NewSubmitCalls # {}) =>
            /\ Cardinality(NewSubmitCalls) = 1
            /\ \A c \in NewSubmitCalls :
                 IF initialData # NoTip /\ initialData._id # 0
                   THEN c.kind = "update" /\ c.id = initialData._id
                   ELSE c.kind = "create"]_vars
  /\ [][(Submit(FALSE) /\ tipSchema(formStockId, form) = {}) =>
          Cardinality(NewSubmitCalls) = 1]_vars

\* The dialog was opened with a tip that has no _id and the valid form
\* went to the create callback.
C15_Witness ==
  /\ initialData = TipDraft
  /\ formErrors = {}
  /\ \E c \in submitInflight : c.kind = "create" /\ c.viaHandleSubmit

\* C16: when updateTip or the create callback rejects, and when
\* onValidSubmit finds neither a selected stock nor a stockId, the "Error"
\* notification is shown, the dialog stays open, the form values, the
\* stock id and the selected stock are as before, and no call is issued.
C16_FailedSubmitKeepsDialog ==
  /\ [][\A c \in submitInflight :
          SubmitFail(c) =>
            /\ tipToast' = "Error"
            /\ submitInflight' = submitInflight \ {c}
            /\ UNCHANGED <<open, form, formStockId, selectedStockDetails,
                           searchTerm, submitCalls>>]_vars
  /\ [][(Submit(TRUE) /\ selectedStockDetails = NoStock
            /\ formStockId = NoStockId) =>
          /\ tipToast' = "Error"
          /\ UNCHANGED <<open, form, formStockId, selectedStockDetails,
                         searchTerm, submitInflight, submitCalls>>]_vars

\* An update of TipBuy has failed: the dialog is open with the stock and
\* the edited buy range still in place.
C16_Witness ==
  /\ open
  /\ tipToast = "Error"
  /\ initialData = TipBuy
  /\ submitCalls = 1
  /\ submitInflight = {}
  /\ selectedStockDetails # NoStock
  /\ form.buyRange # TipBuy.buyRange

\* C17: when a submission succeeds the "Success" notification is shown,
\* the dialog is closed, the selected stock is null, the search text is
\* empty, and the result list is empty or a debounce timer for the empty
\* text is pending that will empty it.
C17_SuccessResetsLocalState ==
  [][\A c \in submitInflight :
       SubmitOk(c) =>
         /\ tipToast' = "Success"
         /\ open' = FALSE
         /\ selectedStockDetails' = NoStock
         /\ searchTerm' = <<>>
         /\ \/ tipSearchResults' = <<>>
            \/ \E t \in tipDebounceTimers' : t.term = <<>>]_vars

\* C18: a call is issued only for form values that satisfy tipSchema and
\* with a selected stock or a stockId.
C18_OnlyValidFormsSubmitted ==
  [][NewSubmitCalls # {} =>
       /\ tipSchema(formStockId, form) = {}
       /\ selectedStockDetails # NoStock \/ formStockId # NoStockId]_vars

\* ------------------------------------------------ claims: the buy range
\* str is a non-negative decimal number: digits, optionally a point with
\* digits on both sides
IsDecimalNumber(str) ==
  /\ str # <<>>
  /\ \A i \in 1..Len(str) : IsDigit(str[i]) \/ str[i] = "."
  /\ Cardinality({i \in 1..Len(str) : str[i] = "."}) <= 1
  /\ str[1] # "."
  /\ str[Len(str)] # "."

RECURSIVE TrimRight(_)
TrimRight(str) ==
  IF str # <<>> /\ str[Len(str)] = " "
    THEN TrimRight(SubSeq(str, 1, Len(str) - 1)) ELSE str

\* str is two decimal numbers separated by one hyphen (blanks next to the
\* hyphen allowed), with nothing before or after
IsNumberHyphenNumber(str) ==
  \E i \in 1..Len(str) :
    /\ str[i] = "-"
    /\ IsDecimalNumber(TrimRight(SubSeq(str, 1, i - 1)))
    /\ IsDecimalNumber(afterSpaces(SubSeq(str, i + 1, Len(str))))

C22_UpdateCarriesTipStock ==
  [][\A c \in NewSubmitCalls :
       (c.kind = "update" /\ formStockId = initialData.stockId)
         => c.stockId = initialData.stockId]_vars

\* ------------------------------------------------ claims: the timer's owner
\* C23: a refresh timer is active only while the page is mounted with
\* real-time refresh enabled and the user authenticated; after the page
\* has unmounted no refresh timer is active.
C23_TimerOnlyWhileEnabled ==
  /\ intervalTimers # {} =>
       (phase = "mounted" /\ isRealTimeEnabled /\ isUserAuthenticated)
  /\ phase = "unmounted" => (intervalTimers = {} /\ intervalRef = NoTimer)

\* The page was unmounted while the refresh loop was switched on.
C23_Witness ==
  /\ phase = "unmounted"
  /\ isRealTimeEnabled
  /\ isUserAuthenticated
  /\ intervalTimers = {}

\* C24: while the refresh loop is stopped (no refresh timer is active), a
\* tick's fetch that was still in flight does not change the displayed
\* rows, the pagination, the last-update timestamp or the update counter
\* when it resolves.
C24_StoppedLoopChangesNothing ==
  [][\A req \in inflight : \A resp \in Responses(req) :
       (intervalTimers = {} /\ TickOk(req, resp)) =>
         UNCHANGED <<stockSymbols, pagination, lastUpdateTime,
                     updateCounter>>]_vars

\* ------------------------------------------------ claims: overlapping searches
\* The response of a request other than the most recently fired one
\* arrives last and leaves the displayed results as they are.
LateResponseIgnored ==
  [][\A c \in searchInflight : \A resp \in SearchResponses(c) :
       (SearchOk(c, resp) /\ c.call < searchCalls /\ searchInflight' = {})
         => searchResults' = searchResults]_vars

\* The searching flag is set exactly while a request is in flight.
SearchingWhileInflight ==
  phase = "mounted" => (isSearching <=> searchInflight # {})

\* C25: with several search requests in flight, once all have resolved
\* the displayed results are those of the most recently fired request
\* whatever the order of arrival, and the searching flag is true exactly
\* while at least one request is in flight.
C25_LatestSearchWins == LateResponseIgnored /\ []SearchingWhileInflight

\* ------------------------------------------------ claims: stored percentages
\* C26: when an existing tip is opened and submitted without a change to a
\* price field, a percentage field or an auto-calculate flag, the payload
\* carries the targetPercentage and the exitStatusPercentage of the
\* initial data.  (SubmitSpec has no step that edits those inputs.)
C26_OpenKeepsPercentages ==
  [][\A c \in NewSubmitCalls :
       initialData # NoTip =>
         /\ c.targetPercentage = initialData.targetPercentage
         /\ c.exitStatusPercentage = initialData.exitStatusPercentage]_vars

\* ------------------------------------------------ claims: the failed fetch
\* C27: a failed detail fetch leaves the cache as it is and selects the
\* fallback record built from the tip; the dialog opened for a stock id
\* that is not a key of the cache, as after a failure, issues the fetch
\* for that id.
C27_FailedFetchNotCached ==
  /\ [][\A q \in detailInflight :
          DetailFail(q) =>
            /\ stockDetailsCache' = stockDetailsCache
            /\ selectedStockDetails' = fallbackStock(q)
            /\ selectedStockDetails'._id = q.stockId]_vars
  /\ [][\A tip \in PricedTips :
          (OpenDialogCapped(tip, MaxRefetchCalls)
             /\ tip.stockId \notin DOMAIN stockDetailsCache) =>
            \E q \in detailInflight' \ detailInflight :
              q.stockId = tip.stockId]_vars

\* The first fetch for TipBuy's stock failed: the fallback record is
\* selected, the cache is empty, and the dialog opened again for TipBuy
\* has issued the second fetch.
C27_Witness ==
  /\ open
  /\ initialData = TipBuy
  /\ selectedStockDetails = fallbackStock(TipBuy)
  /\ stockDetailsCache = <<>>
  /\ detailCalls = 2
  /\ \E q \in detailInflight : q.stockId = TipBuy.stockId /\ q.call = 2

\* ------------------------------------------------ claims: subscriptions
\* The status operations and the loads a step adds
NewStatusOps == statusInflight' \ statusInflight

NewLoads == loadInflight' \ loadInflight

\* C28: confirming a status change issues one operation, cancel for
\* "cancelled" and update otherwise, for the selected subscription, and
\* none without a subscription or a status; no other step issues one.  When
\* the operation succeeds the confirm dialog is closed and one load is
\* started; when it fails the dialog is left as it is and no load is
\* started.
C28_StatusChangeOneOperation ==
  /\ [][NewStatusOps # {} => handleUpdateStatus]_vars
  /\ [][handleUpdateStatus =>
          IF selectedSubscription = NoSubscription \/ newStatus = ""
            THEN NewStatusOps = {}
            ELSE /\ Cardinality(NewStatusOps) = 1
                 /\ \A o \in NewStatusOps :
                      /\ o.id = selectedSubscription
                      /\ (o.op = "cancel") <=> (newStatus = "cancelled")
                      /\ (o.op = "update") <=> (newStatus # "cancelled")
                      /\ o.status = newStatus]_vars
  /\ [][handleUpdateStatus => NewLoads = {}]_vars
  /\ [][\A o \in statusInflight :
          StatusOpOk(o) =>
            /\ statusDialogOpen' = FALSE
            /\ Cardinality(NewLoads) = 1
            /\ NewStatusOps = {}]_vars
  /\ [][\A o \in statusInflight :
          StatusOpFail(o) =>
            /\ UNCHANGED <<statusDialogOpen, loadInflight, loadCalls>>
            /\ subToast' = "Failed to update status"
            /\ NewStatusOps = {}]_vars

\* An "active" status went to updateSubscriptionStatus and failed: the
\* confirm dialog is still open and only the page's first load was started.
C28_Witness ==
  /\ statusDialogOpen
  /\ newStatus = "active"
  /\ subToast = "Failed to update status"
  /\ statusCalls = 1
  /\ statusInflight = {}
  /\ loadCalls = 1

PendingLoads == {q \in inflight : q.kind = "load"}

\* C30: on either page, mounted, isLoading is false whenever no load is in
\* flight; the step that ends a load sets it to false, whether the calls
\* succeeded or failed; and with every remote call answered, a loading
\* indicator that is on goes off.
C30_LoadingNeverStuck ==
  /\ [](phase = "mounted" /\ PendingLoads = {} => ~isLoading)
  /\ [](subPhase = "mounted" /\ loadInflight = {} => ~subIsLoading)
  /\ [][(phase = "mounted" /\ PendingLoads' # PendingLoads
           /\ PendingLoads' \subseteq PendingLoads) => ~isLoading']_vars
  /\ [][(loadInflight' # loadInflight
           /\ Cardinality(loadInflight') < Cardinality(loadInflight))
          => ~subIsLoading']_vars
  /\ (phase = "mounted" /\ isLoading) ~> (~isLoading \/ phase = "unmounted")
  /\ (subPhase = "mounted" /\ subIsLoading) ~> ~subIsLoading

\* On the subscriptions page a second load whose payment-history fetch
\* failed has ended and the indicator is off.
C30_Witness ==
  /\ subPhase = "mounted"
  /\ loadCalls = 2
  /\ loadInflight = {}
  /\ usingMockData.payments
  /\ ~subIsLoading
====
